---- MODULE Spec2Model ----
(***************************************************************************)
(* Harmonica: command-argument parsing (lib/command.ts, lib/duration.ts),  *)
(* the command registry and the text / slash dispatcher (BotWrapper).      *)
(*                                                                         *)
(* Strings are sequences of one-character strings, so that parseFloat, the *)
(* regular expressions and the text splitting are computed on characters.  *)
(* An unset optional array (command.arguments, oneOf, botPermissions) is   *)
(* the empty sequence: every test of the code on them is of the form       *)
(* `x && x.length`, which does not tell the two apart.                     *)
(***************************************************************************)
EXTENDS Integers, Sequences, FiniteSets, TLC

VARIABLES
    options,    \* BotWrapperOptions: useSlashes, prefix, owners
    fs,         \* the command path: group directory -> its entries, in order
    phase,      \* "new", "registering", "running" or "failed" (start-up)
    groups,     \* this._groups, in insertion order
    commands,   \* this._commands: command name -> command
    loads,      \* the calls of registerCommands, each at one of its awaits
    seen,       \* the command path as it was at the start of each of these calls
    disp,       \* the dispatches (handleMessage, handleSlashInteraction) in flight
    pcall,      \* one call of parseArguments
    dcall       \* one call of Duration.parse

wvars == <<options, fs, phase, groups, commands, loads, seen, disp>>
tvars == <<pcall, dcall>>
vars == <<options, fs, phase, groups, commands, loads, seen, disp, pcall, dcall>>

(***************************************************************************)
(* Bounds                                                                  *)
(***************************************************************************)
MaxArgs == 2
MaxTokens == 2
MaxStrLen == 3
MaxFiles == 2
MaxLoads == 2
MaxDispatch == 2

(***************************************************************************)
(* Characters and strings                                                  *)
(***************************************************************************)
Digits == {"0", "1", "2", "3", "4", "5", "6", "7", "8", "9"}

DigitVal == ("0" :> 0) @@ ("1" :> 1) @@ ("2" :> 2) @@ ("3" :> 3) @@ ("4" :> 4) @@
            ("5" :> 5) @@ ("6" :> 6) @@ ("7" :> 7) @@ ("8" :> 8) @@ ("9" :> 9)

Lower == {"a", "b", "c", "d", "e", "f", "g", "h", "i", "j", "k", "l", "m",
          "n", "o", "p", "q", "r", "s", "t", "u", "v", "w", "x", "y", "z"}

WhiteSpace == {" ", "\t", "\n"}

RECURSIVE TrimStart(_)
TrimStart(s) ==
    IF s # <<>> /\ Head(s) \in WhiteSpace THEN TrimStart(Tail(s)) ELSE s

RECURSIVE TrimEnd(_)
TrimEnd(s) ==
    IF s # <<>> /\ s[Len(s)] \in WhiteSpace
    THEN TrimEnd(SubSeq(s, 1, Len(s) - 1)) ELSE s

Trim(s) == TrimEnd(TrimStart(s))

\* Length of the longest prefix of s made of characters of set cs.
RECURSIVE PrefixLen(_, _)
PrefixLen(s, cs) ==
    IF s # <<>> /\ Head(s) \in cs THEN 1 + PrefixLen(Tail(s), cs) ELSE 0

Drop(s, n) == SubSeq(s, n + 1, Len(s))
Take(s, n) == SubSeq(s, 1, n)

\* Value of a sequence of decimal digits (0 for the empty one).
RECURSIVE DecimalValue(_)
DecimalValue(ds) ==
    IF ds = <<>> THEN 0
    ELSE 10 * DecimalValue(Take(ds, Len(ds) - 1)) + DigitVal[ds[Len(ds)]]

RECURSIVE StripTrailingZeros(_)
StripTrailingZeros(ds) ==
    IF ds # <<>> /\ ds[Len(ds)] = "0"
    THEN StripTrailingZeros(Take(ds, Len(ds) - 1)) ELSE ds

\* Array.prototype.join(' ')
RECURSIVE JoinSpace(_)
JoinSpace(ts) ==
    IF ts = <<>> THEN <<>>
    ELSE IF Len(ts) = 1 THEN ts[1]
    ELSE ts[1] \o <<" ">> \o JoinSpace(Tail(ts))

(***************************************************************************)
(* Numbers: n / 10^d with no trailing zero in the fraction; NaN apart.     *)
(***************************************************************************)
NaN == [nan |-> TRUE, n |-> 0, d |-> 0]
Num(n, d) == [nan |-> FALSE, n |-> n, d |-> d]

\* parseFloat: leading white space skipped, optional sign, then the longest
\* prefix that is a decimal literal (digits, optional fraction); NaN if none.
parseFloat(s) ==
    LET t    == TrimStart(s)
        neg  == t # <<>> /\ Head(t) = "-"
        u    == IF t # <<>> /\ Head(t) \in {"-", "+"} THEN Tail(t) ELSE t
        il   == PrefixLen(u, Digits)
        ip   == Take(u, il)
        r    == Drop(u, il)
        fl   == IF r # <<>> /\ Head(r) = "." THEN PrefixLen(Tail(r), Digits) ELSE 0
        fp   == IF fl > 0 THEN StripTrailingZeros(SubSeq(r, 2, fl + 1)) ELSE <<>>
        mant == DecimalValue(ip \o fp)
    IN  IF il = 0 /\ fl = 0 THEN NaN
        ELSE Num(IF neg THEN 0 - mant ELSE mant, Len(fp))

\* parseInt on a string of decimal digits.
parseInt(ds) == DecimalValue(ds)

(***************************************************************************)
(* lib/duration.ts                                                         *)
(***************************************************************************)
DurationPeriod == { <<"m", "s">>, <<"s">>, <<"m">>, <<"h">>, <<"d">>, <<"w">> }

NoValue == [found |-> FALSE]

enumFromValue(val, enum) ==
    IF val \in enum THEN [found |-> TRUE, value |-> val] ELSE NoValue

enumToTime(period) ==
    CASE period = <<"m", "s">> -> 1
      [] period = <<"s">>      -> 1000
      [] period = <<"m">>      -> 1000 * 60
      [] period = <<"h">>      -> 1000 * 60 * 60
      [] period = <<"d">>      -> 1000 * 60 * 60 * 24
      [] period = <<"w">>      -> 1000 * 60 * 60 * 24 * 7
      [] OTHER                 -> 0

Duration(quantity, period) ==
    [found |-> TRUE, quantity |-> quantity, period |-> period]

\* A product too large for the checker's integers, exact as in the code:
\* <<millions, thousands, units>> of f * q.
BigMul(f, q) ==
    LET a == q * (f % 1000)
        b == q * ((f \div 1000) % 1000) + (a \div 1000)
        c == q * (f \div 1000000) + (b \div 1000)
    IN  <<c, b % 1000, a % 1000>>

\* get time()
DurationTime(dur) == BigMul(enumToTime(dur.period), dur.quantity)

\* Duration.parse that takes any one or two letters for a period.
DurationParseAnySuffix(duration) ==
    LET t  == Trim(duration)
        dl == PrefixLen(t, Digits)
        sx == Drop(t, dl)
        matches == /\ dl >= 1
                   /\ Len(sx) \in {1, 2}
                   /\ \A i \in 1..Len(sx) : sx[i] \in Lower
    IN  IF ~matches THEN NoValue
        ELSE Duration(parseInt(Take(t, dl)), sx)

\* Duration.parse: trim, then /^(\d+)([a-z]{1,2})$/.
DurationParse(duration) ==
    LET t  == Trim(duration)
        dl == PrefixLen(t, Digits)
        sx == Drop(t, dl)
        matches == /\ dl >= 1
                   /\ Len(sx) \in {1, 2}
                   /\ \A i \in 1..Len(sx) : sx[i] \in Lower
        period == enumFromValue(sx, DurationPeriod)
    IN  IF ~matches THEN NoValue
        ELSE IF ~period.found THEN NoValue
        ELSE Duration(parseInt(Take(t, dl)), period.value)

(***************************************************************************)
(* The platform (external collaborators of lib/command.ts): which ids the  *)
(* client and the guild resolve.                                           *)
(***************************************************************************)
KnownUsers == { <<"1">>, <<"2">>, <<"3">> }
GuildRoles == { <<"1">> }
GuildTextChannels == { <<"1">> }
GuildOtherChannels == { <<"2">> }

\* wrapper.client.users.fetch(id): Promise<User>; rejects for an unknown id.
usersFetch(id) ==
    IF id \in KnownUsers THEN [found |-> TRUE, value |-> id] ELSE NoValue

\* guild.roles.get(id): the role or undefined.
rolesGet(id) ==
    IF id \in GuildRoles THEN [found |-> TRUE, value |-> id] ELSE NoValue

\* guild.channels.get(id): the channel (of some kind) or undefined.
channelsGet(id) ==
    IF id \in GuildTextChannels THEN [found |-> TRUE, value |-> id, text |-> TRUE]
    ELSE IF id \in GuildOtherChannels THEN [found |-> TRUE, value |-> id, text |-> FALSE]
    ELSE [found |-> FALSE, value |-> id, text |-> FALSE]

(***************************************************************************)
(* lib/command.ts                                                          *)
(***************************************************************************)
ArgumentType == {"string", "number", "boolean", "duration", "user", "role", "channel"}

\* A CommandArgument value, tagged with its runtime type.
Val(t, v) == [t |-> t, v |-> v]
StrItem(s) == Val("string", s)
NumItem(n) == Val("number", Num(n, 0))

isStringArray(arr) == \A i \in 1..Len(arr) : arr[i].t = "string"

isNumberArray(arr) == \A i \in 1..Len(arr) : arr[i].t = "number"

\* Array.prototype.includes on an array of strings / of numbers.
includesString(arr, s) == \E i \in 1..Len(arr) : arr[i].t = "string" /\ arr[i].v = s
includesNumber(arr, x) == \E i \in 1..Len(arr) : arr[i].t = "number" /\ arr[i].v = x

\* s.match(/^<P(\d+)>$/) for a literal opening P (after "<"); with optBang,
\* /^<P!?(\d+)>$/.  The result is the captured id, if any.
mentionMatch(s, open, optBang) ==
    LET n  == Len(open)
        a  == IF Len(s) >= n /\ Take(s, n) = open THEN Drop(s, n) ELSE <<"?">>
        b  == IF optBang /\ a # <<>> /\ Head(a) = "!" THEN Tail(a) ELSE a
        dl == PrefixLen(b, Digits)
    IN  IF dl >= 1 /\ Drop(b, dl) = <<">">>
        THEN [found |-> TRUE, value |-> Take(b, dl)] ELSE NoValue

Ok(v) == [st |-> "ok", val |-> v]
Failure == [st |-> "fail", val |-> Val("none", <<>>)]
Thrown == [st |-> "throw", val |-> Val("none", <<>>)]

\* case 'string' without the oneOf test.
caseStringNoOneOf(argumentDefinition, args, pointer) ==
    IF argumentDefinition.rest
    THEN Ok(Val("string", JoinSpace(SubSeq(args, pointer, Len(args)))))
    ELSE Ok(Val("string", args[pointer]))

\* case 'string' (command.ts 67-79)
caseString(argumentDefinition, args, pointer) ==
    IF argumentDefinition.rest
    THEN Ok(Val("string", JoinSpace(SubSeq(args, pointer, Len(args)))))
    ELSE IF Len(argumentDefinition.oneOf) > 0 /\ isStringArray(argumentDefinition.oneOf)
         THEN IF ~includesString(argumentDefinition.oneOf, args[pointer]) THEN Failure
              ELSE Ok(Val("string", args[pointer]))
         ELSE Ok(Val("string", args[pointer]))

\* case 'number' without the oneOf test.
caseNumberNoOneOf(argumentDefinition, tok) ==
    LET number == parseFloat(tok) IN
    IF number.nan THEN Failure ELSE Ok(Val("number", number))

\* case 'number' (command.ts 80-90)
caseNumber(argumentDefinition, tok) ==
    LET number == parseFloat(tok) IN
    IF number.nan THEN Failure
    ELSE IF Len(argumentDefinition.oneOf) > 0 /\ isNumberArray(argumentDefinition.oneOf)
         THEN IF ~includesNumber(argumentDefinition.oneOf, number) THEN Failure
              ELSE Ok(Val("number", number))
         ELSE Ok(Val("number", number))

\* case 'boolean' (command.ts 91-100)
caseBoolean(tok) ==
    IF tok \in { <<"t","r","u","e">>, <<"y","e","s">>, <<"y">>, <<"1">> }
    THEN Ok(Val("boolean", TRUE))
    ELSE IF tok \in { <<"f","a","l","s","e">>, <<"n","o">>, <<"n">>, <<"0">> }
         THEN Ok(Val("boolean", FALSE))
         ELSE Failure

\* case 'duration' (command.ts 101-106)
caseDuration(tok) ==
    LET duration == DurationParse(tok) IN
    IF ~duration.found THEN Failure
    ELSE Ok(Val("duration", duration))

\* case 'user' (command.ts 107-116); a rejected fetch is not caught.
caseUser(tok) ==
    LET matchArray == mentionMatch(tok, <<"<", "@">>, TRUE) IN
    IF matchArray.found
    THEN LET user == usersFetch(matchArray.value) IN
         IF user.found THEN Ok(Val("user", user.value)) ELSE Thrown
    ELSE Failure

\* case 'role' (command.ts 117-131)
caseRole(tok, guild) ==
    IF ~guild THEN Failure
    ELSE LET matchArray == mentionMatch(tok, <<"<", "@", "&">>, FALSE) IN
         IF matchArray.found
         THEN LET role == rolesGet(matchArray.value) IN
              IF role.found THEN Ok(Val("role", role.value)) ELSE Failure
         ELSE Failure

\* case 'channel' (command.ts 132-146)
caseChannel(tok, guild) ==
    IF ~guild THEN Failure
    ELSE LET matchArray == mentionMatch(tok, <<"<", "#">>, FALSE) IN
         IF matchArray.found
         THEN LET channel == channelsGet(matchArray.value) IN
              IF channel.found /\ channel.text
              THEN Ok(Val("channel", channel.value)) ELSE Failure
         ELSE Failure

\* The switch on the type of one schema entry (command.ts 66-147).
parseOne(argumentDefinition, args, pointer, guild) ==
    CASE argumentDefinition.type = "string" -> caseString(argumentDefinition, args, pointer)
      [] argumentDefinition.type = "number" -> caseNumber(argumentDefinition, args[pointer])
      [] argumentDefinition.type = "boolean" -> caseBoolean(args[pointer])
      [] argumentDefinition.type = "duration" -> caseDuration(args[pointer])
      [] argumentDefinition.type = "user" -> caseUser(args[pointer])
      [] argumentDefinition.type = "role" -> caseRole(args[pointer], guild)
      [] argumentDefinition.type = "channel" -> caseChannel(args[pointer], guild)

\* A parse result: ret is meaningful only when st = "ok".
Result(st, ret) == [st |-> st, ret |-> ret]

\* The loop with `break` where the code has `return undefined`.
RECURSIVE parseLoopBreak(_, _, _, _, _, _)
parseLoopBreak(arguments, args, guild, i, pointer, ret) ==
    IF i > Len(arguments) THEN Result("ok", ret)
    ELSE IF pointer > Len(args) \/ args[pointer] = <<>> THEN Result("ok", ret)
    ELSE LET r == parseOne(arguments[i], args, pointer, guild) IN
         IF r.st # "ok" THEN Result("ok", ret)
         ELSE parseLoopBreak(arguments, args, guild, i + 1, pointer + 1, Append(ret, r.val))

\* The for loop of parseArguments (command.ts 63-150).
RECURSIVE parseLoop(_, _, _, _, _, _)
parseLoop(arguments, args, guild, i, pointer, ret) ==
    IF i > Len(arguments) THEN Result("ok", ret)
    ELSE IF pointer > Len(args) \/ args[pointer] = <<>> THEN Result("ok", ret)
    ELSE LET r == parseOne(arguments[i], args, pointer, guild) IN
         IF r.st # "ok" THEN Result(r.st, <<>>)
         ELSE parseLoop(arguments, args, guild, i + 1, pointer + 1, Append(ret, r.val))

\* parseArguments testing the tokens before the schema.
parseArgumentsArgsFirst(arguments, args, guild) ==
    IF Len(args) = 0 THEN Result("fail", <<>>)
    ELSE IF Len(arguments) = 0 THEN Result("ok", <<>>)
    ELSE parseLoop(arguments, args, guild, 1, 1, <<>>)

\* parseArguments without the test of line 62.
parseArgumentsNoRequired(arguments, args, guild) ==
    IF Len(arguments) = 0 THEN Result("ok", <<>>)
    ELSE parseLoop(arguments, args, guild, 1, 1, <<>>)

\* parseArguments failing on tokens that no schema entry is there for.
parseArgumentsNoExtra(arguments, args, guild) ==
    IF Len(arguments) = 0 THEN Result("ok", <<>>)
    ELSE IF (\E i \in 1..Len(arguments) : ~arguments[i].optional) /\ Len(args) = 0
         THEN Result("fail", <<>>)
         ELSE IF Len(args) > Len(arguments) THEN Result("fail", <<>>)
              ELSE parseLoop(arguments, args, guild, 1, 1, <<>>)

\* parseArguments (command.ts 59-151)
parseArguments(arguments, args, guild) ==
    IF Len(arguments) = 0 THEN Result("ok", <<>>)
    ELSE IF (\E i \in 1..Len(arguments) : ~arguments[i].optional) /\ Len(args) = 0
         THEN Result("fail", <<>>)
         ELSE parseLoop(arguments, args, guild, 1, 1, <<>>)


(***************************************************************************)
(* Inputs of the calls of parseArguments and Duration.parse                *)
(***************************************************************************)
ArgDef(name, type, optional, rest, oneOf) ==
    [name |-> name, type |-> type, optional |-> optional, rest |-> rest, oneOf |-> oneOf]

T2 == <<"2">>
T3 == <<"3">>
Ty == <<"y">>
T10m == <<"1", "0", "m">>
TUser1 == <<"<", "@", "1", ">">>
TUser9 == <<"<", "@", "9", ">">>
TRole1 == <<"<", "@", "&", "1", ">">>
TChan1 == <<"<", "#", "1", ">">>
TEmpty == <<>>

TokenSet == {T2, T3, Ty, T10m, TUser1, TUser9, TRole1, TChan1, TEmpty}

OneOf124 == <<NumItem(1), NumItem(2), NumItem(4)>>

ArgDefs ==
    { ArgDef("a", "string", FALSE, FALSE, <<>>),
      ArgDef("r", "string", TRUE, TRUE, <<>>),
      ArgDef("a", "string", FALSE, FALSE, <<StrItem(Ty), StrItem(T10m)>>),
      ArgDef("a", "string", FALSE, FALSE, <<NumItem(2), NumItem(3)>>),
      ArgDef("b", "number", TRUE, FALSE, <<>>),
      ArgDef("testarg", "number", FALSE, FALSE, OneOf124),
      ArgDef("nice", "boolean", FALSE, FALSE, <<>>),
      ArgDef("d", "duration", TRUE, FALSE, <<>>),
      ArgDef("person", "user", FALSE, FALSE, <<>>),
      ArgDef("role", "role", FALSE, FALSE, <<>>),
      ArgDef("channel", "channel", TRUE, FALSE, <<>>) }

SeqsUpTo(S, n) == UNION { [1..k -> S] : k \in 0..n }

Schemas == SeqsUpTo(ArgDefs, MaxArgs)
TokenSeqs == SeqsUpTo(TokenSet, MaxTokens)

DurAlphabet == {"0", "1", "m", "s", "w", "x", " "}
DurStrings == SeqsUpTo(DurAlphabet, MaxStrLen)

NoResult == Result("none", <<>>)

IdleParse == [arguments |-> <<>>, args |-> <<>>, guild |-> FALSE,
              done |-> FALSE, on |-> FALSE, result |-> NoResult]
IdleDuration == [s |-> <<>>, done |-> FALSE, on |-> FALSE, result |-> NoValue]

(***************************************************************************)
(* Commands, and the modules of the command path                           *)
(***************************************************************************)
NTest == <<"t", "e", "s", "t">>
NReload == <<"r", "e", "l", "o", "a", "d">>
NHelp == <<"h", "e", "l", "p">>
NPerm == <<"p", "e", "r", "m">>
NGown == <<"g", "o", "w", "n">>
NSay == <<"s", "a", "y">>
NTwo == <<"t", "w", "o">>
NMid == <<"m", "i", "d">>

\* Command.userPermissions: unset, 'BOT_OWNER', 'GUILD_OWNER' or a list of flags.
PermUnset == [kind |-> "unset", flags |-> {}]
PermBotOwner == [kind |-> "BOT_OWNER", flags |-> {}]
PermGuildOwner == [kind |-> "GUILD_OWNER", flags |-> {}]
PermFlags(S) == [kind |-> "flags", flags |-> S]

\* A Command; src names the module (and so the handler) it comes from, and
\* group is _group ("" until the wrapper sets it).
Command(name, arguments, botPermissions, userPermissions, slashResponse, src) ==
    [name |-> name, arguments |-> arguments, botPermissions |-> botPermissions,
     userPermissions |-> userPermissions, slashResponse |-> slashResponse,
     src |-> src, group |-> ""]

\* lib/commands/reload.ts and the help command
\* The reload command without a requirement on the user.
ReloadCommandOpen ==
    Command(NReload, <<>>, {}, PermUnset, "ACK_WITH_SOURCE", "builtin/reload")

\* builtins.reload.command (reload.ts 4-18)
ReloadCommand ==
    Command(NReload, <<>>, {}, PermBotOwner, "ACK_WITH_SOURCE", "builtin/reload")
HelpCommand ==
    Command(NHelp, <<ArgDef("command", "string", TRUE, FALSE, <<>>)>>, {}, PermUnset,
            "none", "builtin/help")

\* Commands after the test commands of the repository (test.ts and its
\* other versions); each has a name of its own here, so that one command
\* path can hold several of them.
TestNumber ==
    Command(NTest, <<ArgDef("testarg", "number", FALSE, FALSE, OneOf124)>>, {}, PermUnset,
            "none", "test/number")
TestPerm ==
    Command(NPerm, <<ArgDef("person", "user", FALSE, FALSE, <<>>),
                     ArgDef("nice", "boolean", FALSE, FALSE, <<>>)>>,
            {"EMBED_LINKS"}, PermFlags({"SEND_MESSAGES"}), "ACK_WITH_SOURCE", "test/perm")
TestSay ==
    Command(NSay, <<ArgDef("mode", "string", FALSE, FALSE, <<>>),
                    ArgDef("commandName", "string", TRUE, FALSE, <<>>),
                    ArgDef("content", "string", TRUE, TRUE, <<>>)>>,
            {}, PermUnset, "none", "test/say")
\* Further commands a command path can hold.
TestGown == Command(NGown, <<>>, {}, PermGuildOwner, "none", "test/gown")
\* A command that takes a channel and a role.
TestRef ==
    Command(<<"r", "e", "f">>, <<ArgDef("testarg", "channel", FALSE, FALSE, <<>>),
                                 ArgDef("r", "role", FALSE, FALSE, <<>>)>>,
            {}, PermUnset, "ACK_WITH_SOURCE", "test/ref")
TestOther == Command(NTest, <<>>, {}, PermUnset, "none", "util/test")
TestTwoRest ==
    Command(NTwo, <<ArgDef("r", "string", TRUE, TRUE, <<>>),
                    ArgDef("r", "string", TRUE, TRUE, <<>>)>>,
            {}, PermUnset, "none", "test/two")
TestRestFirst ==
    Command(NMid, <<ArgDef("r", "string", FALSE, TRUE, <<>>),
                    ArgDef("n", "number", TRUE, FALSE, <<>>)>>,
            {}, PermUnset, "none", "test/mid")
TestRestSameName ==
    Command(NMid, <<ArgDef("a", "string", FALSE, TRUE, <<>>),
                    ArgDef("a", "string", TRUE, FALSE, <<>>)>>,
            {}, PermUnset, "none", "test/mid2")
TestReload == Command(NReload, <<>>, {}, PermUnset, "none", "test/reload")

\* An entry of a group directory: a .ts module exporting a command, a .ts
\* module without default export, a .ts module whose import throws, or an
\* entry that is not a .ts file.
Module(cmd) == [kind |-> "command", cmd |-> cmd]
ModNoDefault == [kind |-> "nodefault", cmd |-> HelpCommand]
ModThrows == [kind |-> "throws", cmd |-> HelpCommand]
ModOther == [kind |-> "other", cmd |-> HelpCommand]

Modules ==
    { Module(TestNumber), Module(TestSay), Module(TestOther), Module(TestTwoRest),
      Module(TestRestFirst), Module(TestRestSameName), Module(TestReload),
      ModNoDefault, ModThrows, ModOther }

\* The command paths of the registry runs: every order of up to MaxFiles
\* entries in test/, and a few contents of util/ and builtin/.
Disks ==
    { [g \in {"test"} \cup DOMAIN x |-> IF g = "test" THEN t ELSE x[g]] :
        t \in SeqsUpTo(Modules, MaxFiles),
        x \in { <<>>,
                [util |-> <<Module(TestOther)>>],
                [builtin |-> <<Module(TestGown)>>, util |-> <<Module(TestTwoRest)>>] } }

\* The arguments of register(): main.ts, and lists with groups to skip.
GroupLists ==
    { << <<"test", "Testing commands">> >>,
      << <<"test", "Testing commands">>, <<"util", "Utilities">> >>,
      << <<"builtin", "Mine">>, <<"", "No name">>, <<"util", "">>,
         <<"misc", "Miscellaneous">>, <<"test", "Testing commands">> >> }

(***************************************************************************)
(* Events of the platform: messages and slash interactions                 *)
(***************************************************************************)
\* message.content: the texts of the messages
Contents ==
    { <<"!", "t", "e", "s", "t", " ", "2">>,
      <<"!", "t", "e", "s", "t", " ", "3">>,
      <<"!", "t", "e", "s", "t">>,
      <<"t", "e", "s", "t", " ", "2">>,
      <<"!", "n", "o", "p", "e", " ", "2">>,
      <<"!", "r", "e", "l", "o", "a", "d">>,
      <<"!", "p", "e", "r", "m", " ", "<", "@", "1", ">", " ", "y">>,
      <<"!", "p", "e", "r", "m", " ", "<", "@", "9", ">", " ", "y">>,
      <<"!", "g", "o", "w", "n">>,
      <<"!", " ", " ", "t", "e", "s", "t", " ", " ", " ", "2", " ">>,
      <<"<", "@", "!", "0", ">", " ", "t", "e", "s", "t", " ", "2">>,
      <<"!", "s", "a", "y", " ", "a", " ", "b", " ", "c">> }

\* The configured owner, the owner of the guild, and a plain member.
UOwner == <<"1">>
UGuildOwner == <<"2">>
UMember == <<"3">>
Users == {UOwner, UGuildOwner, UMember}

\* guild.ownerID of the one guild
GuildOwnerId == UGuildOwner

\* getBotMention: client.user.nickMention (the client has its user once
\* connected)
getBotMention == <<"<", "@", "!", "0", ">">>

Flags == {"SEND_MESSAGES", "EMBED_LINKS"}

\* An option of an interaction: the name of the argument it was supplied
\* for (registerSlashes registers each argument by its name, part_003
\* 297-302) and its typed value.
Opt(name, t, v) == [name |-> name, t |-> t, v |-> v]

\* The options of an interaction, as the platform sends them: those the
\* user supplied, in the order of the schema.
OptionLists ==
    { <<>>,
      <<Opt("testarg", "number", Num(2, 0))>>,
      <<Opt("testarg", "number", Num(3, 0))>>,
      <<Opt("person", "user", <<"1">>), Opt("nice", "boolean", TRUE)>>,
      <<Opt("testarg", "channel", <<"1">>), Opt("r", "role", <<"1">>)>>,
      <<Opt("mode", "string", Ty), Opt("commandName", "string", T2),
        Opt("content", "string", T3)>>,
      <<Opt("mode", "string", Ty), Opt("content", "string", T3)>> }

Event(kind, content, name, opts, author, bot, itype, guild) ==
    [kind |-> kind, content |-> content, name |-> name, opts |-> opts,
     author |-> author, bot |-> bot, itype |-> itype, guild |-> guild]

\* message events; message.guild is undefined in a direct message.
MessageEvents ==
    { Event("message", c, <<>>, <<>>, u, b, "none", g) :
        c \in Contents, u \in Users, b \in BOOLEAN, g \in BOOLEAN }

\* interaction events; an Interaction always has its guild and channel.
InteractionEvents ==
    { Event("interaction", <<>>, n, o, u, b, t, TRUE) :
        n \in {NTest, NPerm, NGown, NReload, NHelp, NSay, TestRef.name},
        o \in OptionLists, u \in Users, b \in BOOLEAN,
        t \in {"APPLICATION_COMMAND", "PING"} }

Slots == 1..MaxDispatch

\* A dispatch: where it stands, the event, the command it took from the
\* registry, what it did so far (log), the raw tokens, the arguments given
\* to the handler, and the call of registerCommands its handler waits for;
\* and, once the user permission check is over, what the platform had for
\* it: whether the channel was found in the guild's channels (chanFound)
\* and the author's effective permissions in the channel (userPerms).
IdleDispatch ==
    [pc |-> "idle", ev |-> Event("none", <<>>, <<>>, <<>>, <<>>, FALSE, "none", FALSE),
     cmd |-> Command(<<>>, <<>>, {}, PermUnset, "none", "none"), log |-> <<>>,
     rawArgs |-> <<>>, handlerArgs |-> <<>>, loader |-> 0,
     botChanFound |-> FALSE, botPerms |-> {},
     chanFound |-> FALSE, userPerms |-> {}]

FinishedDispatch == [IdleDispatch EXCEPT !.pc = "finished"]

(***************************************************************************)
(* BotWrapper: construction, register, registerCommands                    *)
(***************************************************************************)
Options(useSlashes, prefix) ==
    [useSlashes |-> useSlashes, prefix |-> prefix, owners |-> { <<"1">> }]

EmptyMap == [n \in {} |-> ReloadCommand]

Loaders == 1..MaxLoads

IdleLoad == [pc |-> "idle", gi |-> 0, fi |-> 0]

\* The state the constructor leaves (wrapper.ts 207-211).
Constructed ==
    /\ phase = "new"
    /\ groups = <<>>
    /\ commands = EmptyMap
    /\ loads = [l \in Loaders |-> IdleLoad]
    /\ seen = <<>>
    /\ disp = [d \in Slots |-> IdleDispatch]

\* Map.prototype.set on this._groups: a known key keeps its position.
groupsSet(gs, name, description) ==
    IF \E i \in 1..Len(gs) : gs[i][1] = name
    THEN [i \in 1..Len(gs) |-> IF gs[i][1] = name THEN <<name, description>> ELSE gs[i]]
    ELSE Append(gs, <<name, description>>)

\* The loop of register with `break` where the code has `continue`.
RECURSIVE registerGroupsAbort(_, _)
registerGroupsAbort(gs, list) ==
    IF list = <<>> THEN gs
    ELSE LET group == Head(list) IN
         IF group[1] # "" /\ group[2] # "" /\ group[1] \notin {"builtin"}
         THEN registerGroupsAbort(groupsSet(gs, group[1], group[2]), Tail(list))
         ELSE gs

\* The loop of register (wrapper.ts 230-239).
RECURSIVE registerGroups(_, _)
registerGroups(gs, list) ==
    IF list = <<>> THEN gs
    ELSE LET group == Head(list) IN
         IF group[1] # "" /\ group[2] # "" /\ group[1] \notin {"builtin"}
         THEN registerGroups(groupsSet(gs, group[1], group[2]), Tail(list))
         ELSE registerGroups(gs, Tail(list))

\* registerBuiltin (wrapper.ts 352-355)
registerBuiltin(cmds, command) ==
    (command.name :> [command EXCEPT !.group = "builtin"]) @@ cmds

\* registerBuiltins registering nothing.
registerBuiltinsNone(cmds) == cmds

\* The commands after registerBuiltins (wrapper.ts 342-346).
registerBuiltins(cmds) ==
    registerBuiltin(registerBuiltin(cmds, ReloadCommand), HelpCommand)

isCommand(cmds, name) == name \in DOMAIN cmds

\* The entries of the directory of the gi-th group ("exists" decides if any).
exists(gs, gi) == gs[gi][1] \in DOMAIN fs
dirOf(gs, gi) == fs[gs[gi][1]]

\* Where the loops of registerCommands stop next, from entry fi of group gi
\* on: at the import of the next .ts file, at the exists of the next group,
\* or at the end (wrapper.ts 298-305, 338).
RECURSIVE nextImport(_, _, _)
nextImport(gs, gi, fi) ==
    IF fi > Len(dirOf(gs, gi))
    THEN IF gi < Len(gs) THEN [pc |-> "exists", gi |-> gi + 1, fi |-> 0]
         ELSE [pc |-> "done", gi |-> gi, fi |-> 0]
    ELSE IF dirOf(gs, gi)[fi].kind = "other" THEN nextImport(gs, gi, fi + 1)
    ELSE [pc |-> "import", gi |-> gi, fi |-> fi]

\* registerCommand without the test on the number of rest arguments.
registerCommandNoCount(cmds, command, group) ==
    LET restArguments == SelectSeq(command.arguments, LAMBDA arg : arg.rest) IN
    IF isCommand(cmds, command.name) THEN cmds
    ELSE IF Len(restArguments) > 0
            /\ restArguments[1].name # command.arguments[Len(command.arguments)].name
         THEN cmds
    ELSE (command.name :> [command EXCEPT !.group = group]) @@ cmds

\* registerCommand without the test on the name.
registerCommandNoDup(cmds, command, group) ==
    LET restArguments == SelectSeq(command.arguments, LAMBDA arg : arg.rest) IN
    IF Len(restArguments) > 0 /\ Len(restArguments) > 1 THEN cmds
    ELSE IF Len(restArguments) > 0
            /\ restArguments[1].name # command.arguments[Len(command.arguments)].name
         THEN cmds
    ELSE (command.name :> [command EXCEPT !.group = group]) @@ cmds

\* The tests on an imported command, and its registration (wrapper.ts 313-335).
registerCommand(cmds, command, group) ==
    LET restArguments == SelectSeq(command.arguments, LAMBDA arg : arg.rest) IN
    IF isCommand(cmds, command.name) THEN cmds
    ELSE IF Len(restArguments) > 0 /\ Len(restArguments) > 1 THEN cmds
    ELSE IF Len(restArguments) > 0
            /\ restArguments[1].name # command.arguments[Len(command.arguments)].name
         THEN cmds
    ELSE (command.name :> [command EXCEPT !.group = group]) @@ cmds

\* registerCommands keeping the map it finds.
BeginLoadKeep(l) ==
    /\ loads[l].pc = "idle"
    /\ commands' = registerBuiltins(commands)
    /\ groups' = groupsSet(groups, "builtin", "Built-in commands")
    /\ loads' = [loads EXCEPT ![l] = [pc |-> "exists", gi |-> 1, fi |-> 0]]
    /\ seen' = Append(seen, fs)

\* registerCommands up to its first await: a new map, the builtins, and the
\* exists of the first group (wrapper.ts 295-300).
BeginLoad(l) ==
    /\ loads[l].pc = "idle"
    /\ commands' = registerBuiltins(EmptyMap)
    /\ groups' = groupsSet(groups, "builtin", "Built-in commands")
    /\ loads' = [loads EXCEPT ![l] = [pc |-> "exists", gi |-> 1, fi |-> 0]]
    /\ seen' = Append(seen, fs)

\* register(groups) (wrapper.ts 229-242), at start-up.
Register ==
    /\ phase = "new"
    /\ \E list \in GroupLists :
          LET gs == registerGroups(groups, list) IN
          /\ commands' = registerBuiltins(EmptyMap)
          /\ groups' = groupsSet(gs, "builtin", "Built-in commands")
          /\ loads' = [loads EXCEPT ![1] = [pc |-> "exists", gi |-> 1, fi |-> 0]]
    /\ seen' = Append(seen, fs)
    /\ phase' = "registering"
    /\ UNCHANGED <<options, fs, disp, tvars>>

\* await exists(groupPath) returns (wrapper.ts 300).
LoadExists(l) ==
    /\ loads[l].pc = "exists"
    /\ LET gi == loads[l].gi IN
       loads' = [loads EXCEPT ![l] =
                    IF exists(groups, gi) THEN nextImport(groups, gi, 1)
                    ELSE IF gi < Len(groups) THEN [pc |-> "exists", gi |-> gi + 1, fi |-> 0]
                    ELSE [pc |-> "done", gi |-> gi, fi |-> 0]]
    /\ UNCHANGED <<options, fs, phase, groups, commands, seen, disp, tvars>>

\* await import(...) returns or throws; the command is tested and registered
\* and the loops go on to the next await (wrapper.ts 305-336).
LoadImport(l) ==
    /\ loads[l].pc = "import"
    /\ LET gi == loads[l].gi
           fi == loads[l].fi
           mod == dirOf(groups, gi)[fi]
       IN  IF mod.kind = "throws"
           THEN /\ loads' = [loads EXCEPT ![l] = [pc |-> "failed", gi |-> gi, fi |-> fi]]
                /\ UNCHANGED commands
           ELSE /\ loads' = [loads EXCEPT ![l] = nextImport(groups, gi, fi + 1)]
                /\ commands' = IF mod.kind = "nodefault" THEN commands
                               ELSE registerCommand(commands, mod.cmd, groups[gi][1])
    /\ UNCHANGED <<options, fs, phase, groups, seen, disp, tvars>>

\* The promise of register() settles: run() starts the bot (main.ts 19-23),
\* unless registerCommands threw.
Run ==
    /\ phase = "registering"
    /\ loads[1].pc \in {"done", "failed"}
    /\ phase' = IF loads[1].pc = "done" THEN "running" ELSE "failed"
    /\ UNCHANGED <<options, fs, groups, commands, loads, seen, disp, tvars>>

\* A later call of registerCommands (the run of the reload command), here
\* once the calls before it have returned.
CallRegisterCommands(l) ==
    /\ phase = "running"
    /\ l > 1
    /\ \A k \in Loaders : k < l => loads[k].pc \in {"done", "failed"}
    /\ BeginLoad(l)
    /\ UNCHANGED <<options, fs, phase, disp, tvars>>

\* What an edit of the command path does to test/: its last module is
\* removed, a module is added at its end, or both.
Edits(disk) ==
    LET t == disk["test"]
        butLast == SubSeq(t, 1, Len(t) - 1)
        new == {Module(TestSay), Module(TestNumber)}
    IN  { [disk EXCEPT !["test"] = butLast] : x \in { y \in {1} : Len(t) > 0 } }
        \cup { [disk EXCEPT !["test"] = Append(t, m)] :
                  m \in { y \in new : Len(t) < MaxFiles } }
        \cup { [disk EXCEPT !["test"] = Append(butLast, m)] :
                  m \in { y \in new : Len(t) > 0 /\ y # t[Len(t)] } }

\* The command path is edited between two calls of registerCommands (a
\* module is added or removed before the commands are reloaded); the
\* command paths edited are those with test/ alone.
DiskChange ==
    /\ phase = "running"
    /\ DOMAIN fs = {"test"}
    /\ Len(seen) < MaxLoads
    /\ fs = seen[Len(seen)]
    /\ loads[Len(seen)].pc \in {"done", "failed"}
    /\ fs' \in Edits(fs)
    /\ UNCHANGED <<options, phase, groups, commands, loads, seen, disp, tvars>>

InitLoad ==
    /\ options = Options(FALSE, <<"!">>)
    /\ fs \in Disks
    /\ Constructed
    /\ pcall = IdleParse
    /\ dcall = IdleDuration

NextLoad ==
    \/ Register
    \/ \E l \in Loaders : LoadExists(l)
    \/ \E l \in Loaders : LoadImport(l)
    \/ Run
    \/ \E l \in Loaders : CallRegisterCommands(l)
    \/ DiskChange

SpecLoad == InitLoad /\ [][NextLoad]_vars

(***************************************************************************)
(* BotWrapper: run, handleMessage, handleSlashInteraction                  *)
(***************************************************************************)
startsWith(s, p) == Len(s) >= Len(p) /\ Take(s, Len(p)) = p

\* String.prototype.replace(p, ''): the first occurrence of p is removed.
RECURSIVE replaceFirst(_, _)
replaceFirst(s, p) ==
    IF startsWith(s, p) THEN Drop(s, Len(p))
    ELSE IF s = <<>> THEN s
    ELSE <<Head(s)>> \o replaceFirst(Tail(s), p)

\* replace(/\s+/g, ' ')
RECURSIVE collapseWhiteSpace(_)
collapseWhiteSpace(s) ==
    IF s = <<>> THEN s
    ELSE IF Head(s) \in WhiteSpace
         THEN <<" ">> \o collapseWhiteSpace(Drop(s, PrefixLen(s, WhiteSpace)))
         ELSE <<Head(s)>> \o collapseWhiteSpace(Tail(s))

\* String.prototype.split(' ')
RECURSIVE split(_)
split(s) ==
    IF \A i \in 1..Len(s) : s[i] # " " THEN <<s>>
    ELSE LET k == CHOOSE i \in 1..Len(s) : s[i] = " " /\ \A j \in 1..(i - 1) : s[j] # " "
         IN  <<Take(s, k - 1)>> \o split(Drop(s, k))

\* Number.prototype.toString, String.prototype.toString, ...
DigitChar == <<"0", "1", "2", "3", "4", "5", "6", "7", "8", "9">>

RECURSIVE NatToString(_)
NatToString(n) ==
    IF n < 10 THEN <<DigitChar[n + 1]>>
    ELSE NatToString(n \div 10) \o <<DigitChar[(n % 10) + 1]>>

RECURSIVE Zeros(_)
Zeros(k) == IF k <= 0 THEN <<>> ELSE <<"0">> \o Zeros(k - 1)

NumToString(x) ==
    IF x.nan THEN <<"N", "a", "N">>
    ELSE LET a  == IF x.n < 0 THEN 0 - x.n ELSE x.n
             ds == NatToString(a)
             pd == IF Len(ds) <= x.d THEN Zeros(x.d + 1 - Len(ds)) \o ds ELSE ds
             ip == Take(pd, Len(pd) - x.d)
             fp == Drop(pd, Len(pd) - x.d)
         IN  (IF x.n < 0 THEN <<"-">> ELSE <<>>) \o ip \o
             (IF x.d > 0 THEN <<".">> \o fp ELSE <<>>)

toString(value) ==
    CASE value.t = "number" -> NumToString(value.v)
      [] value.t = "boolean" -> IF value.v THEN <<"t", "r", "u", "e">>
                                ELSE <<"f", "a", "l", "s", "e">>
      [] OTHER -> value.v

\* Permissions.has(required)
has(perms, required) == required \subseteq perms

Log(rec, tags) == [rec EXCEPT !.log = rec.log \o tags]

\* Listeners that hand every message and every command interaction of a
\* user to its handler, whatever useSlashes is.
listensBoth(ev) ==
    IF ev.kind = "message" THEN ~ev.bot
    ELSE ~ev.bot /\ ev.itype = "APPLICATION_COMMAND"

\* Listeners that do not look at who the author is.
listensBots(ev) ==
    IF ev.kind = "message" THEN ~options.useSlashes
    ELSE options.useSlashes /\ ev.itype = "APPLICATION_COMMAND"

\* The listeners of run() (part_003 77-87): which events reach a handler.
listens(ev) ==
    IF ev.kind = "message" THEN ~options.useSlashes /\ ~ev.bot
    ELSE options.useSlashes /\ ~ev.bot /\ ev.itype = "APPLICATION_COMMAND"

\* handleMessage without the two tests of how the message starts.
handleMessageStartAnywhere(ev) ==
    LET started == [IdleDispatch EXCEPT !.ev = ev]
        mark == IF options.prefix # <<>> THEN options.prefix ELSE getBotMention
        workingContent == Trim(collapseWhiteSpace(replaceFirst(ev.content, mark)))
        parts == split(workingContent)
    IN  IF isCommand(commands, Head(parts))
        THEN [started EXCEPT !.pc = "botperm", !.cmd = commands[Head(parts)],
                             !.rawArgs = Tail(parts), !.log = <<"found">>]
        ELSE [started EXCEPT !.pc = "done"]

\* handleMessage up to its first await (part_003 215-235).
handleMessageStart(ev) ==
    LET started == [IdleDispatch EXCEPT !.ev = ev]
        mark == IF options.prefix # <<>> THEN options.prefix ELSE getBotMention
    IN  IF options.prefix # <<>> /\ ~startsWith(ev.content, options.prefix)
        THEN [started EXCEPT !.pc = "done"]
        ELSE IF options.prefix = <<>> /\ ~startsWith(ev.content, getBotMention)
        THEN [started EXCEPT !.pc = "done"]
        ELSE LET workingContent == Trim(collapseWhiteSpace(replaceFirst(ev.content, mark)))
                 parts == split(workingContent)
                 cmd == Head(parts)
                 args == Tail(parts)
             IN  IF isCommand(commands, cmd)
                 THEN [started EXCEPT !.pc = "botperm", !.cmd = commands[cmd],
                                      !.rawArgs = args, !.log = <<"found">>]
                 ELSE [started EXCEPT !.pc = "done"]

\* handleSlashInteraction up to its first await (part_003 321-327).
handleSlashStart(ev) ==
    LET started == [IdleDispatch EXCEPT !.ev = ev] IN
    IF ev.name \in DOMAIN commands
    THEN [started EXCEPT !.pc = "botperm", !.cmd = commands[ev.name], !.log = <<"found">>]
    ELSE [started EXCEPT !.pc = "done"]

\* The bot permission check (part_003 236-242 and 327-333): "pass" or "deny".
\* chanFound: guild.channels.get found the channel; perms: what
\* permissionsFor reports.
botStage(kind, cmd, guild, chanFound, perms) ==
    IF kind = "message"
    THEN IF cmd.botPermissions # {} /\ guild
         THEN IF chanFound /\ ~has(perms, cmd.botPermissions) THEN "deny" ELSE "pass"
         ELSE "pass"
    ELSE IF cmd.botPermissions # {}
         THEN IF ~has(perms, cmd.botPermissions) THEN "deny" ELSE "pass"
         ELSE "pass"

\* Permissions.has for userPermissions: a list of flags is looked up; the
\* string 'GUILD_OWNER' is no flag of the platform, and what has makes of
\* it (sentinel: "true", "false" or "throw") is the library's.
hasUser(up, perms, sentinel) ==
    IF up.kind = "flags" THEN (IF has(perms, up.flags) THEN "true" ELSE "false")
    ELSE sentinel

\* userPermissions.length > 0, for a string and for a list
nonEmpty(up) == up.kind \in {"BOT_OWNER", "GUILD_OWNER"} \/ up.flags # {}

\* The user permission check asking the platform about configured owners
\* as about everybody else.
userStageNoOwners(kind, cmd, author, guild, chanFound, perms, sentinel) ==
    LET up == cmd.userPermissions
        h  == hasUser(up, perms, sentinel)
    IN  IF up.kind = "unset" THEN "pass"
        ELSE IF up.kind \in {"BOT_OWNER", "GUILD_OWNER"}
        THEN IF up.kind = "GUILD_OWNER" /\ GuildOwnerId = author /\ guild
             THEN "pass" ELSE "deny"
        ELSE IF nonEmpty(up) /\ (guild \/ kind # "message")
             THEN IF kind = "message" /\ ~chanFound THEN "pass"
                  ELSE IF h = "false" THEN "deny" ELSE "pass"
             ELSE "pass"

\* The user permission check with BOT_OWNER tested like GUILD_OWNER, in a
\* guild only.
userStageBotOwnerInGuild(kind, cmd, author, guild, chanFound, perms, sentinel) ==
    LET up == cmd.userPermissions IN
    IF up.kind = "unset" \/ author \in options.owners THEN "pass"
    ELSE IF up.kind = "BOT_OWNER" THEN (IF guild THEN "deny" ELSE "pass")
    ELSE IF up.kind = "GUILD_OWNER"
    THEN IF guild /\ GuildOwnerId # author THEN "deny" ELSE "pass"
    ELSE IF nonEmpty(up) /\ (guild \/ kind # "message")
         THEN IF kind = "message" /\ ~chanFound THEN "pass"
              ELSE IF has(perms, up.flags) THEN "pass" ELSE "deny"
         ELSE "pass"

\* The user permission check (part_003 244-258 and 335-343): "pass", "deny"
\* or "throw".
userStage(kind, cmd, author, guild, chanFound, perms, sentinel) ==
    LET up == cmd.userPermissions
        h  == hasUser(up, perms, sentinel)
    IN  IF up.kind = "unset" \/ author \in options.owners THEN "pass"
        ELSE IF kind = "message"
        THEN IF up.kind = "BOT_OWNER"
                \/ (up.kind = "GUILD_OWNER" /\ guild /\ GuildOwnerId # author)
             THEN "deny"
             ELSE IF nonEmpty(up) /\ guild
                  THEN IF ~chanFound THEN "pass"
                       ELSE IF h = "throw" THEN "throw"
                       ELSE IF h = "false" THEN "deny" ELSE "pass"
                  ELSE "pass"
        ELSE IF up.kind = "BOT_OWNER" THEN "deny"
             ELSE IF up.kind = "GUILD_OWNER" /\ GuildOwnerId # author THEN "deny"
             ELSE IF nonEmpty(up)
                  THEN IF h = "throw" THEN "throw"
                       ELSE IF h = "false" THEN "deny" ELSE "pass"
                  ELSE "pass"

\* The raw tokens of an interaction (part_003 345-357).
RECURSIVE slashRawArgs(_, _, _)
slashRawArgs(arguments, opts, i) ==
    IF i > Len(opts) THEN <<>>
    ELSE (IF i <= Len(arguments)
          THEN << CASE arguments[i].type = "user" ->
                          <<"<", "@", "!">> \o toString(opts[i]) \o <<">">>
                    [] arguments[i].type = "channel" ->
                          <<"<", "#">> \o toString(opts[i]) \o <<">">>
                    [] arguments[i].type = "role" ->
                          <<"<", "@", "&">> \o toString(opts[i])
                    [] OTHER -> toString(opts[i]) >>
          ELSE <<>>) \o slashRawArgs(arguments, opts, i + 1)

\* The definition looked up in the registry again wherever it is used.
actualCommandLive(rec) ==
    IF rec.cmd.name \in DOMAIN commands THEN commands[rec.cmd.name] ELSE IdleDispatch.cmd

\* const actualCommand (part_003 234) and localCommand (part_003 322): the
\* definition a dispatch obtained from the registry when it began.
actualCommand(rec) == rec.cmd

\* Where a dispatch stands once the handler was called: the handler of
\* reload goes on to registerCommands (reload.ts 9-16), the others are done.
afterRun(cmd) == IF cmd.src = "builtin/reload" THEN "reload" ELSE "done"

\* The dispatch after a failed user permission check that does not return.
userDeniedFallThrough(rec) ==
    [Log(rec, <<"userfail", "denied">>) EXCEPT !.pc = "parse"]

\* The dispatch after a failed user permission check (part_003 247-248 and
\* 339-341): the message is sent at once, the interaction is acknowledged
\* first.
userDenied(rec) ==
    IF rec.ev.kind = "message"
    THEN [Log(rec, <<"userfail", "denied">>) EXCEPT !.pc = "done"]
    ELSE [Log(rec, <<"userfail">>) EXCEPT !.pc = "deny"]

\* An event of the platform arrives, once the dispatches before it ended.
Deliver(d) ==
    /\ phase = "running"
    /\ disp[d].pc = "idle"
    /\ \A k \in Slots : k < d => disp[k].pc = "finished"
    /\ \E ev \in MessageEvents \cup InteractionEvents :
          disp' = [disp EXCEPT ![d] =
                      IF ~listens(ev) THEN [IdleDispatch EXCEPT !.ev = ev, !.pc = "done"]
                      ELSE IF ev.kind = "message" THEN handleMessageStart(ev)
                      ELSE handleSlashStart(ev)]
    /\ UNCHANGED <<options, fs, phase, groups, commands, loads, seen, tvars>>

\* The bot permission check of a dispatch; what the platform answered is
\* kept for a command that requires bot permissions.
BotPerm(d) ==
    /\ disp[d].pc = "botperm"
    /\ \E chanFound \in BOOLEAN, perms \in SUBSET Flags :
          LET cmd == actualCommand(disp[d])
              rec == IF cmd.botPermissions = {} THEN disp[d]
                     ELSE [disp[d] EXCEPT !.botChanFound = chanFound, !.botPerms = perms]
              out == botStage(rec.ev.kind, cmd, rec.ev.guild, chanFound, perms)
          IN  disp' = [disp EXCEPT ![d] =
                          IF out = "deny"
                          THEN [Log(rec, <<"botfail", "denied">>) EXCEPT !.pc = "done"]
                          ELSE [Log(rec, <<"botok">>) EXCEPT !.pc = "userperm"]]
    /\ UNCHANGED <<options, fs, phase, groups, commands, loads, seen, tvars>>

\* The user permission check of a dispatch; what the platform answered is
\* kept for a command whose requirement may make the check ask it.
UserPerm(d) ==
    /\ disp[d].pc = "userperm"
    /\ \E chanFound \in BOOLEAN, perms \in SUBSET Flags, sentinel \in {"true", "false", "throw"} :
          LET rec == IF actualCommand(disp[d]).userPermissions.kind \in {"unset", "BOT_OWNER"}
                     THEN disp[d]
                     ELSE [disp[d] EXCEPT !.chanFound = chanFound, !.userPerms = perms]
              out == userStage(rec.ev.kind, actualCommand(rec), rec.ev.author, rec.ev.guild,
                               chanFound, perms, sentinel)
          IN  disp' = [disp EXCEPT ![d] =
                          CASE out = "deny" -> userDenied(rec)
                            [] out = "throw" -> [Log(rec, <<"throw">>) EXCEPT !.pc = "done"]
                            [] OTHER -> [Log(rec, <<"userok">>) EXCEPT !.pc = "parse"]]
    /\ UNCHANGED <<options, fs, phase, groups, commands, loads, seen, tvars>>

\* The denial of a slash command (part_003 339-341).
Deny(d) ==
    /\ disp[d].pc = "deny"
    /\ disp' = [disp EXCEPT ![d] = [Log(disp[d], <<"denied">>) EXCEPT !.pc = "done"]]
    /\ UNCHANGED <<options, fs, phase, groups, commands, loads, seen, tvars>>

\* parseArguments and what follows it without an await (part_003 260-265
\* and 345-365): handleMessage calls the handler at once.
Parse(d) ==
    /\ disp[d].pc = "parse"
    /\ LET rec == disp[d]
           cmd == actualCommand(rec)
           args == IF rec.ev.kind = "message" THEN rec.rawArgs
                   ELSE slashRawArgs(cmd.arguments, rec.ev.opts, 1)
           r == parseArguments(cmd.arguments, args, rec.ev.guild)
           called == [Log(rec, <<"parse">>) EXCEPT !.rawArgs = args]
       IN  disp' = [disp EXCEPT ![d] =
                       CASE r.st = "ok" /\ rec.ev.kind = "message" ->
                               [Log(called, <<"parsed", "run">>) EXCEPT
                                   !.handlerArgs = r.ret, !.pc = afterRun(cmd)]
                         [] r.st = "ok" /\ rec.ev.kind # "message" ->
                               [Log(called, <<"parsed">>) EXCEPT
                                   !.handlerArgs = r.ret, !.pc = "respond"]
                         [] r.st = "fail" -> [called EXCEPT !.pc = "hint"]
                         [] OTHER -> [Log(called, <<"throw">>) EXCEPT !.pc = "done"]]
    /\ UNCHANGED <<options, fs, phase, groups, commands, loads, seen, tvars>>

\* The command whose arguments were incorrect is taken out of the registry
\* as the message about them is sent.
HintUnregister(d) ==
    /\ disp[d].pc = "hint"
    /\ disp' = [disp EXCEPT ![d] = [Log(disp[d], <<"hint">>) EXCEPT !.pc = "done"]]
    /\ commands' = [n \in DOMAIN commands \ {disp[d].cmd.name} |-> commands[n]]
    /\ UNCHANGED <<options, fs, phase, groups, loads, seen, tvars>>

\* The message about incorrect arguments (part_003 264-265, 364-365).
Hint(d) ==
    /\ disp[d].pc = "hint"
    /\ disp' = [disp EXCEPT ![d] = [Log(disp[d], <<"hint">>) EXCEPT !.pc = "done"]]
    /\ UNCHANGED <<options, fs, phase, groups, commands, loads, seen, tvars>>

\* The handler called before the interaction is responded to.
RespondAfterRun(d) ==
    /\ disp[d].pc = "respond"
    /\ disp' = [disp EXCEPT ![d] =
                   [Log(disp[d], <<"run", "respond">>) EXCEPT
                       !.pc = afterRun(actualCommand(disp[d]))]]
    /\ UNCHANGED <<options, fs, phase, groups, commands, loads, seen, tvars>>

\* interaction.respond(slashResponse) returns and the handler is called
\* (part_003 361-362).
Respond(d) ==
    /\ disp[d].pc = "respond"
    /\ disp' = [disp EXCEPT ![d] =
                   [Log(disp[d], <<"respond", "run">>) EXCEPT
                       !.pc = afterRun(actualCommand(disp[d]))]]
    /\ UNCHANGED <<options, fs, phase, groups, commands, loads, seen, tvars>>

\* The handler of reload calls registerCommands (reload.ts 10-11).
ReloadBegin(d) ==
    /\ disp[d].pc = "reload"
    /\ \E l \in Loaders :
          /\ l > 1
          /\ BeginLoad(l)
          /\ disp' = [disp EXCEPT ![d].pc = "reloading", ![d].loader = l]
    /\ UNCHANGED <<options, fs, phase, tvars>>

\* registerCommands returned to the handler of reload, or threw
\* (reload.ts 11-16).
ReloadEnd(d) ==
    /\ disp[d].pc = "reloading"
    /\ loads[disp[d].loader].pc \in {"done", "failed"}
    /\ disp' = [disp EXCEPT ![d] =
                   [Log(disp[d], IF loads[disp[d].loader].pc = "done"
                                 THEN <<"reloaded">> ELSE <<"reloadthrew">>)
                       EXCEPT !.pc = "done"]]
    /\ loads' = [loads EXCEPT ![disp[d].loader] = IdleLoad]
    /\ UNCHANGED <<options, fs, phase, groups, commands, seen, tvars>>

\* A dispatch that ended is forgotten.
Finish(d) ==
    /\ disp[d].pc = "done"
    /\ disp' = [disp EXCEPT ![d] = FinishedDispatch]
    /\ UNCHANGED <<options, fs, phase, groups, commands, loads, seen, tvars>>

\* The command paths of the runs with events.
EventDisks ==
    { [g \in {"test"} |-> <<Module(TestReload), Module(TestNumber), Module(TestPerm)>>],
      [g \in {"test"} |-> <<Module(TestGown), Module(TestSay), Module(TestRef)>>],
      [g \in {"test"} |-> <<Module(TestPerm), ModThrows>>] }

Init ==
    /\ options \in { Options(u, p) : u \in BOOLEAN, p \in { <<"!">>, <<>> } }
    /\ fs \in EventDisks
    /\ Constructed
    /\ pcall = IdleParse
    /\ dcall = IdleDuration

Next ==
    \/ Register
    \/ \E l \in Loaders : LoadExists(l)
    \/ \E l \in Loaders : LoadImport(l)
    \/ Run
    \/ \E d \in Slots : Deliver(d)
    \/ \E d \in Slots : BotPerm(d)
    \/ \E d \in Slots : UserPerm(d)
    \/ \E d \in Slots : Deny(d)
    \/ \E d \in Slots : Parse(d)
    \/ \E d \in Slots : Hint(d)
    \/ \E d \in Slots : Respond(d)
    \/ \E d \in Slots : ReloadBegin(d)
    \/ \E d \in Slots : ReloadEnd(d)
    \/ \E d \in Slots : Finish(d)

Spec == Init /\ [][Next]_vars

(***************************************************************************)
(* Dispatches in flight together: handleMessage is an async listener, and  *)
(* a message that arrives while the dispatch of the message before it      *)
(* awaits is handled at once. Text mode with the prefix "!"; test/ may be  *)
(* edited before a reload.                                                 *)
(***************************************************************************)
ConcEvents ==
    { Event("message", <<"!", "r", "e", "l", "o", "a", "d">>, <<>>, <<>>, UOwner,
            FALSE, "none", TRUE),
      Event("message", <<"!", "t", "e", "s", "t", " ", "2">>, <<>>, <<>>, UMember,
            FALSE, "none", TRUE) }

\* A message arrives, whatever the dispatch of the message before it is
\* doing; the dispatches before that one have ended.
DeliverConc(d) ==
    /\ phase = "running"
    /\ disp[d].pc = "idle"
    /\ \A k \in Slots : k < d => disp[k].pc # "idle"
    /\ \A k \in Slots : k + 1 < d => disp[k].pc = "finished"
    /\ \E ev \in ConcEvents :
          disp' = [disp EXCEPT ![d] =
                      IF ~listens(ev) THEN [IdleDispatch EXCEPT !.ev = ev, !.pc = "done"]
                      ELSE handleMessageStart(ev)]
    /\ UNCHANGED <<options, fs, phase, groups, commands, loads, seen, tvars>>

InitConc ==
    /\ options = Options(FALSE, <<"!">>)
    /\ fs = [g \in {"test"} |-> <<Module(TestPerm), Module(TestNumber)>>]
    /\ Constructed
    /\ pcall = IdleParse
    /\ dcall = IdleDuration

NextConc ==
    \/ Register
    \/ \E l \in Loaders : LoadExists(l)
    \/ \E l \in Loaders : LoadImport(l)
    \/ Run
    \/ DiskChange
    \/ \E d \in Slots : DeliverConc(d)
    \/ \E d \in Slots : BotPerm(d)
    \/ \E d \in Slots : UserPerm(d)
    \/ \E d \in Slots : Parse(d)
    \/ \E d \in Slots : ReloadBegin(d)
    \/ \E d \in Slots : ReloadEnd(d)
    \/ \E d \in Slots : Finish(d)

SpecConc == InitConc /\ [][NextConc]_vars

(***************************************************************************)
(* Calls of registerCommands that overlap: registerCommands is async, and  *)
(* a call made while another awaits exists() or import() starts at once.   *)
(* The command path holds test/ and util/ and is not edited.               *)
(***************************************************************************)
\* A call of registerCommands after start-up (a run of the reload command),
\* whatever the calls before it are doing.
CallOverlap(l) ==
    /\ phase = "running"
    /\ Len(seen) <= MaxLoads
    /\ BeginLoad(l)
    /\ UNCHANGED <<options, fs, phase, disp, tvars>>

\* The promise of a call of registerCommands has resolved.
Returned(l) ==
    /\ phase = "running"
    /\ loads[l].pc = "done"
    /\ loads' = [loads EXCEPT ![l] = IdleLoad]
    /\ UNCHANGED <<options, fs, phase, groups, commands, seen, disp, tvars>>

InitOverlap ==
    /\ options = Options(FALSE, <<"!">>)
    /\ fs \in { disk \in Disks : DOMAIN disk = {"test", "util"} }
    /\ Constructed
    /\ pcall = IdleParse
    /\ dcall = IdleDuration

NextOverlap ==
    \/ Register
    \/ \E l \in Loaders : LoadExists(l)
    \/ \E l \in Loaders : LoadImport(l)
    \/ Run
    \/ \E l \in Loaders : CallOverlap(l)
    \/ \E l \in Loaders : Returned(l)

SpecOverlap == InitOverlap /\ [][NextOverlap]_vars

\* The guild is read for role and channel arguments only: the calls without
\* a guild are drawn for the schemas that have one.
InitParse ==
    \/ /\ \E sc \in Schemas, ts \in TokenSeqs, g \in BOOLEAN :
              /\ g \/ \E i \in 1..Len(sc) : sc[i].type \in {"role", "channel"}
              /\ pcall = [arguments |-> sc, args |-> ts, guild |-> g,
                          done |-> FALSE, on |-> TRUE, result |-> NoResult]
       /\ dcall = IdleDuration
       /\ options = Options(FALSE, <<"!">>) /\ fs = <<>> /\ Constructed
    \/ /\ pcall = IdleParse
       /\ \E s \in DurStrings :
              dcall = [s |-> s, done |-> FALSE, on |-> TRUE, result |-> NoValue]
       /\ options = Options(FALSE, <<"!">>) /\ fs = <<>> /\ Constructed

\* A call parseArguments(wrapper, command, args, guild).
ParseCall ==
    /\ pcall.on /\ ~pcall.done
    /\ pcall' = [pcall EXCEPT !.done = TRUE,
                    !.result = parseArguments(pcall.arguments, pcall.args, pcall.guild)]
    /\ UNCHANGED <<dcall, wvars>>

\* A call Duration.parse(s).
DurationCall ==
    /\ dcall.on /\ ~dcall.done
    /\ dcall' = [dcall EXCEPT !.done = TRUE, !.result = DurationParse(dcall.s)]
    /\ UNCHANGED <<pcall, wvars>>

NextParse == ParseCall \/ DurationCall

SpecParse == InitParse /\ [][NextParse]_vars


(***************************************************************************)
(* Properties of parseArguments and Duration.parse (under SpecParse)       *)
(***************************************************************************)
\* Position i of the raw tokens holds a token, as do all positions before it.
TokensPresent(args, i) == i <= Len(args) /\ \A j \in 1..i : args[j] # <<>>

C3_RequiredHaveValues ==
    (/\ pcall.done
     /\ pcall.result.st = "ok"
     /\ Len(pcall.result.ret) < Len(pcall.arguments)
     /\ Len(pcall.args) = Len(pcall.result.ret))
        => \A i \in (Len(pcall.result.ret) + 1)..Len(pcall.arguments) :
               pcall.arguments[i].optional

\* C4: with an empty schema parseArguments returns the empty list for every
\* token sequence.
C4_EmptySchema ==
    (pcall.done /\ Len(pcall.arguments) = 0) => pcall.result = Result("ok", <<>>)

C4_Witness ==
    /\ pcall.done
    /\ Len(pcall.arguments) = 0
    /\ Len(pcall.args) >= 1
    /\ pcall.result = Result("ok", <<>>)

\* C5: a schema with a non-optional argument and no raw token at all fails.
C5_RequiredEmptyFails ==
    (/\ pcall.done
     /\ \E i \in 1..Len(pcall.arguments) : ~pcall.arguments[i].optional
     /\ Len(pcall.args) = 0)
        => pcall.result = Result("fail", <<>>)

C5_Witness ==
    /\ pcall.done
    /\ Len(pcall.args) = 0
    /\ \E i \in 1..Len(pcall.arguments) : ~pcall.arguments[i].optional
    /\ pcall.result.st = "fail"

\* C6: a number argument with a non-empty numeric oneOf yields the number
\* parsed from its token when that number is in the set, and otherwise the
\* whole parse fails; with {1,2,4}, "2" gives 2 and "3" fails.
C6_NumberOneOf ==
    pcall.done =>
        LET r == pcall.result
            A == pcall.arguments
            T == pcall.args
            numOneOf(i) == /\ A[i].type = "number"
                           /\ Len(A[i].oneOf) > 0
                           /\ \A k \in 1..Len(A[i].oneOf) : A[i].oneOf[k].t = "number"
            member(i) == /\ ~parseFloat(T[i]).nan
                         /\ \E k \in 1..Len(A[i].oneOf) : A[i].oneOf[k].v = parseFloat(T[i])
        IN  /\ \A i \in 1..Len(A) :
                  (numOneOf(i) /\ TokensPresent(T, i)) =>
                      IF member(i)
                      THEN (r.st = "ok" => r.ret[i] = Val("number", parseFloat(T[i])))
                      ELSE r.st # "ok"
            /\ (Len(A) = 1 /\ numOneOf(1) /\ A[1].oneOf = OneOf124 /\ T = <<T2>>)
                   => r = Result("ok", <<Val("number", Num(2, 0))>>)
            /\ (Len(A) = 1 /\ numOneOf(1) /\ A[1].oneOf = OneOf124 /\ T = <<T3>>)
                   => r = Result("fail", <<>>)

C6_Witness ==
    /\ pcall.done
    /\ Len(pcall.arguments) = 1
    /\ pcall.arguments[1].type = "number"
    /\ pcall.arguments[1].oneOf = OneOf124
    /\ pcall.args = <<T2>>
    /\ pcall.result = Result("ok", <<Val("number", Num(2, 0))>>)

IsDurationText(s) ==
    \E k \in 1..(Len(s) - 1) :
        /\ \A i \in 1..k : s[i] \in Digits
        /\ SubSeq(s, k + 1, Len(s)) \in {<<"m", "s">>, <<"s">>, <<"m">>, <<"h">>, <<"d">>, <<"w">>}

\* What C8 requires of the result for a string s that is to be read as text t.
DurationAgrees(res, t) ==
    LET msOf == [x \in {<<"m", "s">>, <<"s">>, <<"m">>, <<"h">>, <<"d">>, <<"w">>} |->
                    CASE x = <<"m", "s">> -> 1 [] x = <<"s">> -> 1000 [] x = <<"m">> -> 60000
                      [] x = <<"h">> -> 3600000 [] x = <<"d">> -> 86400000
                      [] x = <<"w">> -> 604800000]
    IN  /\ res.found <=> IsDurationText(t)
        /\ res.found =>
              LET k == PrefixLen(t, Digits) IN
              /\ res.quantity = DecimalValue(Take(t, k))
              /\ res.period = Drop(t, k)
              /\ DurationTime(res) = BigMul(msOf[res.period], res.quantity)

\* A duration argument whose token is not a duration text fails the parse.
DurationArgFails(text(_)) ==
    pcall.done =>
        \A i \in 1..Len(pcall.arguments) :
            (/\ pcall.arguments[i].type = "duration"
             /\ TokensPresent(pcall.args, i)
             /\ ~IsDurationText(text(pcall.args[i])))
                => pcall.result.st # "ok"

Same(s) == s

\* C8 as stated: Duration.parse(s) returns a Duration exactly when s itself
\* is digits followed by ms, s, m, h, d or w.
C8_DurationExact ==
    /\ dcall.done => DurationAgrees(dcall.result, dcall.s)
    /\ DurationArgFails(Same)

\* C8 amended: Duration.parse(s) returns a Duration exactly when s, with
\* its leading and trailing white space removed, is one or more digits
\* followed by ms, s, m, h, d or w; quantity, period and time are those of
\* the trimmed text ("10m": 10, minute, 600000), and a duration argument
\* whose token is no such text fails the whole parse.
C8_DurationTrimmed ==
    /\ dcall.done => DurationAgrees(dcall.result, Trim(dcall.s))
    /\ (dcall.done /\ dcall.s = T10m)
           => /\ dcall.result = Duration(10, <<"m">>)
              /\ DurationTime(dcall.result) = <<0, 600, 0>>
    /\ DurationArgFails(Trim)

C8_Witness ==
    /\ dcall.done
    /\ dcall.s = T10m
    /\ dcall.result.found
    /\ DurationTime(dcall.result) = <<0, 600, 0>>


(***************************************************************************)
(* Properties of the registry (under SpecLoad)                             *)
(***************************************************************************)
restCount(command) == Len(SelectSeq(command.arguments, LAMBDA arg : arg.rest))

\* C9: a discovered command with two or more rest arguments is never in the
\* registry; the step that rejects it leaves the registry as it was and moves
\* the load on to the next entry, and once the load has returned the later
\* commands of the directory that pass the tests are registered.
C9_TwoRestRejected ==
    [][ /\ \A n \in DOMAIN commands' : restCount(commands'[n]) <= 1
        /\ \A l \in Loaders :
              LET gi == loads[l].gi
                  fi == loads[l].fi
              IN  (/\ loads[l].pc = "import"
                   /\ loads'[l] # loads[l]
                   /\ dirOf(groups, gi)[fi].kind = "command"
                   /\ restCount(dirOf(groups, gi)[fi].cmd) >= 2)
                      => /\ commands' = commands
                         /\ loads'[l].pc \in {"import", "exists", "done"}
                         /\ loads'[l].pc = "import" => (loads'[l].gi = gi /\ loads'[l].fi > fi)
                         /\ loads'[l].pc = "exists" => loads'[l].gi = gi + 1
                         /\ (loads'[l].pc = "done" /\ l = 1) =>
                               \A i \in 1..Len(fs["test"]) :
                                   (fs["test"][i].kind = "command"
                                    /\ restCount(fs["test"][i].cmd) = 0)
                                       => fs["test"][i].cmd.name \in DOMAIN commands'
      ]_vars

C9_Witness ==
    /\ loads[1].pc = "done"
    /\ Len(fs["test"]) >= 2
    /\ fs["test"][1] = Module(TestTwoRest)
    /\ fs["test"][2] = Module(TestNumber)
    /\ NTwo \notin DOMAIN commands
    /\ NTest \in DOMAIN commands
    /\ commands[NTest].src = "test/number"

\* C10: every registered command with a rest argument has it in the last
\* position of its schema.
C10_RestIsLast ==
    \A n \in DOMAIN commands :
        \A i \in 1..Len(commands[n].arguments) :
            commands[n].arguments[i].rest => i = Len(commands[n].arguments)

\* C11: during a load, a discovered command whose name is already in the
\* registry is skipped and the registry stays as it is; as long as no new
\* load starts, every name keeps the command (definition and group) it was
\* first registered with.
C11_DuplicateSkipped ==
    [][ /\ \A l \in Loaders :
              LET gi == loads[l].gi
                  fi == loads[l].fi
              IN  (/\ loads[l].pc = "import"
                   /\ loads'[l] # loads[l]
                   /\ dirOf(groups, gi)[fi].kind = "command"
                   /\ dirOf(groups, gi)[fi].cmd.name \in DOMAIN commands)
                      => /\ commands' = commands
                         /\ loads'[l].pc \in {"import", "exists", "done"}
        /\ seen' = seen =>
              \A n \in DOMAIN commands :
                  n \in DOMAIN commands' /\ commands'[n] = commands[n]
      ]_vars

\* test/ and util/ both hold a command named test; the one of test/, found
\* first, is the one registered.
C11_Witness ==
    /\ loads[1].pc = "done"
    /\ Len(seen) = 1
    /\ \E i \in 1..Len(groups) : groups[i][1] = "util"
    /\ "util" \in DOMAIN fs /\ fs["util"] = <<Module(TestOther)>>
    /\ fs["test"] = <<Module(TestNumber)>>
    /\ commands[NTest].src = "test/number"
    /\ commands[NTest].group = "test"

\* The groups map gs holds the groups of the list that have a name, a
\* description and a name other than "builtin", and none of the others.
GroupsAsSupplied(list, gs) ==
    \A i \in 1..Len(list) :
        IF list[i][1] = "" \/ list[i][2] = "" \/ list[i][1] = "builtin"
        THEN ~\E j \in 1..Len(gs) : gs[j] = list[i]
        ELSE \E j \in 1..Len(gs) : gs[j] = list[i]

\* C12: register(groups) skips a supplied group named "builtin" and the
\* groups without name or description and goes on with the others, which
\* all are in the groups map; once it has completed, the groups map has
\* "builtin" with the built-in description and the registry maps help and
\* reload to the built-in commands, tagged "builtin".
C12_RegisterGroups ==
    [][ /\ (phase = "new" /\ phase' = "registering") =>
              \A list \in GroupLists :
                  groups' = groupsSet(registerGroups(groups, list),
                                      "builtin", "Built-in commands")
                      => GroupsAsSupplied(list, groups')
        /\ loads'[1].pc = "done" =>
              /\ groups' = groups
              /\ \E j \in 1..Len(groups') : groups'[j] = <<"builtin", "Built-in commands">>
              /\ {NHelp, NReload} \subseteq DOMAIN commands'
              /\ commands'[NHelp] = [HelpCommand EXCEPT !.group = "builtin"]
              /\ commands'[NReload] = [ReloadCommand EXCEPT !.group = "builtin"]
      ]_vars

\* register completed for the list with a "builtin" group, a group without
\* name and one without description.
C12_Witness ==
    /\ loads[1].pc = "done"
    /\ groups = << <<"misc", "Miscellaneous">>, <<"test", "Testing commands">>,
                   <<"builtin", "Built-in commands">> >>
    /\ commands[NHelp].group = "builtin"
    /\ commands[NReload].src = "builtin/reload"

\* C13: the commands tagged with the group "builtin" are the built-in help
\* and reload commands only; no command discovered from a directory has
\* this tag.
C13_BuiltinGroupReserved ==
    \A n \in DOMAIN commands :
        commands[n].group = "builtin" =>
            commands[n].src \in {"builtin/help", "builtin/reload"}

RegistryOf(cmds, gs, disk) ==
    /\ {NHelp, NReload} \subseteq DOMAIN cmds
    /\ \A n \in DOMAIN cmds :
          \/ cmds[n] \in { [HelpCommand EXCEPT !.group = "builtin"],
                           [ReloadCommand EXCEPT !.group = "builtin"] }
          \/ \E i \in 1..Len(gs) :
                /\ gs[i][1] \in DOMAIN disk
                /\ \E k \in 1..Len(disk[gs[i][1]]) :
                      /\ disk[gs[i][1]][k].kind = "command"
                      /\ cmds[n] = [disk[gs[i][1]][k].cmd EXCEPT !.group = gs[i][1]]
    /\ \A i \in 1..Len(gs) :
          gs[i][1] \in DOMAIN disk =>
              \A k \in 1..Len(disk[gs[i][1]]) :
                  LET mod == disk[gs[i][1]][k] IN
                  (/\ mod.kind = "command"
                   /\ \/ restCount(mod.cmd) = 0
                      \/ /\ restCount(mod.cmd) = 1
                         /\ mod.cmd.arguments[Len(mod.cmd.arguments)].rest)
                      => mod.cmd.name \in DOMAIN cmds

\* C15: when a call of registerCommands completes, the registry is the
\* built-ins and the accepted commands of the modules that the directories
\* of the registered groups held at this call: a module added since the
\* call before is in it, a module removed since then is not.
C15_ReloadRebuilds ==
    [][ \A l \in Loaders :
            (loads[l].pc # "done" /\ loads'[l].pc = "done" /\ l <= Len(seen))
                => /\ seen[l] = fs
                   /\ RegistryOf(commands', groups', seen[l])
      ]_vars

\* Between the first and the second load test/number was replaced by
\* test/say; after the second load say is registered and test is not.
C15_Witness ==
    /\ Len(seen) = 2
    /\ loads[2].pc = "done"
    /\ seen[1]["test"] = <<Module(TestNumber)>>
    /\ seen[2]["test"] = <<Module(TestSay)>>
    /\ DOMAIN seen[2] = {"test"}
    /\ NSay \in DOMAIN commands
    /\ NTest \notin DOMAIN commands

\* C16: an import that throws does not make the load fail: the module is
\* skipped and the load goes on, so no call of registerCommands ends by
\* an exception.
C16_ImportErrorSkipped ==
    \A l \in Loaders : loads[l].pc # "failed"

(***************************************************************************)
(* Properties of the dispatch (under Spec)                                 *)
(***************************************************************************)
\* How often a step occurs in the log of a dispatch, and where first.
Count(log, tag) == Cardinality({ i \in 1..Len(log) : log[i] = tag })
Pos(log, tag) ==
    IF Count(log, tag) = 0 THEN 0
    ELSE CHOOSE i \in 1..Len(log) : log[i] = tag /\ \A j \in 1..(i - 1) : log[j] # tag

\* C1: in handleMessage and in handleSlashInteraction the handler is called
\* at most once per dispatch, and only after the command was found in the
\* registry, then both permission checks passed, then parseArguments
\* returned a list, in this order; once a permission check failed, neither
\* parseArguments nor the handler is called for that dispatch, and the
\* dispatch does not end without the denial being sent.
C1_DispatchOrder ==
    \A d \in Slots :
        LET log == disp[d].log IN
        /\ Count(log, "run") <= 1
        /\ Count(log, "run") = 1 =>
              /\ 0 < Pos(log, "found")
              /\ Pos(log, "found") < Pos(log, "botok")
              /\ Pos(log, "botok") < Pos(log, "userok")
              /\ Pos(log, "userok") < Pos(log, "parse")
              /\ Pos(log, "parse") < Pos(log, "parsed")
              /\ Pos(log, "parsed") < Pos(log, "run")
              /\ disp[d].cmd.name \in DOMAIN registerBuiltins(EmptyMap)
                    \/ \E i \in 1..Len(fs["test"]) : fs["test"][i].cmd.name = disp[d].cmd.name
        /\ (Count(log, "botfail") > 0 \/ Count(log, "userfail") > 0) =>
              /\ Count(log, "parse") = 0
              /\ Count(log, "run") = 0
              /\ disp[d].pc \in {"deny", "done"}
              /\ disp[d].pc = "done" => Count(log, "denied") = 1

\* A dispatch of the perm command, which has both checks and two arguments,
\* called its handler.
C1_Witness ==
    \E d \in Slots :
        /\ disp[d].pc = "done"
        /\ disp[d].cmd.name = NPerm
        /\ disp[d].ev.author = UMember
        /\ Count(disp[d].log, "run") = 1
        /\ Len(disp[d].handlerArgs) = 2

\* The dispatches that stand behind the user permission check.
PastUserStage(d) ==
    /\ disp[d].pc \notin {"idle", "finished", "botperm", "userperm"}
    /\ Count(disp[d].log, "botok") = 1

\* C17: the user permission check never denies a user whose id is in the
\* configured owners, whatever the command requires (BOT_OWNER, GUILD_OWNER
\* or permission flags), in both paths, whatever that user is in the guild
\* and whatever permissions the platform has for that user.
C17_OwnersBypass ==
    \A d \in Slots :
        disp[d].ev.author \in options.owners =>
            /\ Count(disp[d].log, "userfail") = 0
            /\ PastUserStage(d) => Count(disp[d].log, "userok") = 1

\* The configured owner, who is not the owner of the guild and has not the
\* permission the perm command requires, has passed its user permission
\* check in a channel of the guild.
C17_Witness ==
    \E d \in Slots :
        /\ disp[d].ev.author = UOwner
        /\ disp[d].ev.guild /\ disp[d].chanFound
        /\ disp[d].cmd.userPermissions = PermFlags({"SEND_MESSAGES"})
        /\ disp[d].userPerms = {}
        /\ Count(disp[d].log, "userok") = 1
        /\ Count(disp[d].log, "run") = 1

\* C18: a command that requires BOT_OWNER is never run for a user who is
\* not in the configured owners: in both paths, in a guild or not, whatever
\* the platform has for the user, the user permission check does not pass,
\* the handler is not called and the dispatch ends with a denial.
C18_BotOwnerOnly ==
    \A d \in Slots :
        (/\ disp[d].cmd.userPermissions = PermBotOwner
         /\ disp[d].ev.author \notin options.owners)
            => /\ Count(disp[d].log, "userok") = 0
               /\ Count(disp[d].log, "parse") = 0
               /\ Count(disp[d].log, "run") = 0
               /\ disp[d].pc \in {"botperm", "userperm", "deny", "done"}
               /\ disp[d].pc = "done" => Count(disp[d].log, "denied") = 1

\* A plain member sent the reload command in a direct message and was
\* denied.
C18_Witness ==
    \E d \in Slots :
        /\ disp[d].pc = "done"
        /\ disp[d].ev.kind = "message" /\ ~disp[d].ev.guild
        /\ disp[d].ev.author = UMember
        /\ disp[d].cmd.name = NReload
        /\ Count(disp[d].log, "userfail") = 1
        /\ Count(disp[d].log, "denied") = 1

\* C19: for a command that requires GUILD_OWNER and a user who is not a
\* configured owner, the user permission check passes only in a guild and
\* only for the owner of that guild.
C19_GuildOwnerOnly ==
    \A d \in Slots :
        (/\ disp[d].cmd.userPermissions = PermGuildOwner
         /\ disp[d].ev.author \notin options.owners
         /\ Count(disp[d].log, "userok") = 1)
            => disp[d].ev.guild /\ disp[d].ev.author = GuildOwnerId

\* C20: for a command that requires a non-empty set of permission flags and
\* a user who is not a configured owner, the user permission check passes
\* only if the user's effective permissions in the channel have every flag
\* of the set.
C20_FlagsRequired ==
    \A d \in Slots :
        (/\ disp[d].cmd.userPermissions.kind = "flags"
         /\ disp[d].cmd.userPermissions.flags # {}
         /\ disp[d].ev.author \notin options.owners
         /\ Count(disp[d].log, "userok") = 1)
            => disp[d].cmd.userPermissions.flags \subseteq disp[d].userPerms

\* C21: for a command that requires a non-empty set of bot permissions and
\* is invoked in a guild, the bot permission check passes only if the bot's
\* effective permissions in the channel have every flag of the set;
\* otherwise the denial is sent and the handler is not called, for a
\* configured owner as for anybody else.
C21_BotPermsRequired ==
    \A d \in Slots :
        (/\ disp[d].cmd.botPermissions # {}
         /\ disp[d].ev.guild
         /\ disp[d].pc \notin {"idle", "finished", "botperm"})
            => IF disp[d].cmd.botPermissions \subseteq disp[d].botPerms
               THEN Count(disp[d].log, "botok") = 1
               ELSE /\ Count(disp[d].log, "botok") = 0
                    /\ Count(disp[d].log, "run") = 0
                    /\ Count(disp[d].log, "denied") = 1

\* The permission decision a dispatch has reached: denied for the bot's
\* permissions, denied for the user's, allowed, or none (yet).
Decision(log) ==
    IF Count(log, "botfail") = 1 THEN "bot"
    ELSE IF Count(log, "userfail") = 1 THEN "user"
    ELSE IF Count(log, "userok") = 1 THEN "allowed"
    ELSE "none"

\* The decisions of one path for a command, a user and the platform's
\* answers, in a guild; an interaction comes with its channel.
PathDecisions(kind, cmd, author, botChan, botPerms, userChan, userPerms) ==
    IF botStage(kind, cmd, TRUE, botChan, botPerms) = "deny" THEN {"bot"}
    ELSE { LET out == userStage(kind, cmd, author, TRUE, userChan, userPerms, sentinel)
           IN  CASE out = "deny" -> "user" [] out = "pass" -> "allowed" [] OTHER -> "none" :
             sentinel \in {"true", "false", "throw"} }

\* C22: for the same command, user, configured owners, guild and channel
\* and the same permissions of the bot and of the user in that channel, the
\* text path and the slash path decide alike: what a dispatch of one path
\* decided (allowed, denied for the bot's permissions, denied for the
\* user's) is what the other path decides on what the platform answered.
C22_SameDecision ==
    \A d \in Slots :
        LET rec == disp[d] IN
        (rec.ev.guild /\ Decision(rec.log) # "none") =>
            Decision(rec.log) \in
                IF rec.ev.kind = "message"
                THEN PathDecisions("interaction", rec.cmd, rec.ev.author,
                                   TRUE, rec.botPerms, TRUE, rec.userPerms)
                ELSE PathDecisions("message", rec.cmd, rec.ev.author,
                                   TRUE, rec.botPerms, TRUE, rec.userPerms)

\* C23: the text path and the slash path exclude each other by
\* configuration, which never changes: with useSlashes no message is ever
\* looked up or answered, without it no interaction is, so that in no run
\* both handlers call command handlers.
C23_OnePathPerConfiguration ==
    [][/\ options' = options
       /\ \A d \in Slots :
             (disp'[d].log # <<>> \/ disp'[d].cmd.name # <<>>) =>
                 (disp'[d].ev.kind = "message") = (~options'.useSlashes)]_vars

\* With useSlashes, the message "!test 2" of a user arrived while test was
\* registered, and was ignored.
C23_Witness ==
    \E d \in Slots :
        /\ options.useSlashes /\ options.prefix = <<"!">>
        /\ NTest \in DOMAIN commands
        /\ disp[d].ev.kind = "message" /\ ~disp[d].ev.bot
        /\ disp[d].ev.content = <<"!", "t", "e", "s", "t", " ", "2">>
        /\ disp[d].pc = "done"
        /\ disp[d].log = <<>>

\* The first word of a text: what stands between the white space at its
\* start and the next white space.
RECURSIVE WordAtStart(_)
WordAtStart(s) ==
    IF s = <<>> \/ Head(s) \in WhiteSpace THEN <<>>
    ELSE <<Head(s)>> \o WordAtStart(Tail(s))

FirstWord(s) == WordAtStart(TrimStart(s))

\* The text a message has to start with: the prefix, or the bot's mention.
Mark == IF options.prefix # <<>> THEN options.prefix ELSE getBotMention

\* C24: in text mode a message of a user that does not start with the
\* prefix (without a prefix: with the mention of the bot), or whose first
\* word after it is not the name of a registered command, is ignored:
\* nothing is sent, no permission is checked, nothing is parsed and no
\* handler is called.
C24_OtherMessagesIgnored ==
    \A d \in Slots :
        LET ev == disp[d].ev IN
        (/\ ev.kind = "message" /\ ~options.useSlashes
         /\ disp[d].pc \notin {"idle", "finished"}
         /\ \/ ~startsWith(ev.content, Mark)
            \/ FirstWord(Drop(ev.content, Len(Mark))) \notin DOMAIN commands)
            => /\ disp[d].pc = "done"
               /\ disp[d].log = <<>>
               /\ disp[d].cmd = IdleDispatch.cmd
               /\ disp[d].handlerArgs = <<>>

\* In text mode with the prefix "!", the message "test 2" of a user arrived
\* while test was registered, and was ignored.
C24_Witness ==
    \E d \in Slots :
        /\ ~options.useSlashes /\ options.prefix = <<"!">>
        /\ NTest \in DOMAIN commands
        /\ disp[d].ev.kind = "message" /\ ~disp[d].ev.bot
        /\ disp[d].ev.content = <<"t", "e", "s", "t", " ", "2">>
        /\ disp[d].pc = "done"
        /\ disp[d].log = <<>>

\* C25: in the text path, for a registered command whose permission checks
\* passed, the dispatch ends in exactly one of two ways: parseArguments
\* succeeded, and the handler was called once with the parsed values in the
\* order of the schema and no hint was sent; or it failed, and the hint
\* about incorrect arguments was sent and the handler was not called. With
\* the prefix "!" and test taking a number of 1, 2, 4: "!test 2" calls the
\* handler with 2, "!test 3" sends the hint.
C25_TextOutcome ==
    \A d \in Slots :
        LET rec == disp[d]
            r == parseArguments(rec.cmd.arguments, rec.rawArgs, rec.ev.guild)
        IN  (/\ rec.ev.kind = "message"
             /\ Count(rec.log, "userok") = 1
             /\ rec.pc \in {"done", "reload", "reloading"})
                => /\ \/ /\ r.st = "ok"
                         /\ Count(rec.log, "run") = 1 /\ Count(rec.log, "hint") = 0
                         /\ rec.handlerArgs = r.ret
                      \/ /\ r.st # "ok"
                         /\ Count(rec.log, "run") = 0 /\ Count(rec.log, "hint") = 1
                   /\ (rec.cmd = [TestNumber EXCEPT !.group = "test"]
                         /\ rec.ev.content = <<"!", "t", "e", "s", "t", " ", "2">>)
                        => rec.handlerArgs = <<Val("number", Num(2, 0))>>
                   /\ (rec.cmd = [TestNumber EXCEPT !.group = "test"]
                         /\ rec.ev.content = <<"!", "t", "e", "s", "t", " ", "3">>)
                        => Count(rec.log, "hint") = 1

\* The options that stand for an existing user, an existing role of the
\* guild and an existing text channel of the guild.
EntityOptions ==
    { Val("user", u) : u \in KnownUsers } \cup { Val("role", r) : r \in GuildRoles }
        \cup { Val("channel", c) : c \in GuildTextChannels }

\* C26: for the types user, role and channel, the token that the slash path
\* makes of an option is a mention that parseArguments accepts for that
\* type: in every dispatch of an interaction that was parsed, an option that
\* stands for an existing entity of its argument's type was parsed to that
\* entity.
C26_SlashTokensParse ==
    \A d \in Slots :
        LET rec == disp[d] IN
        (rec.ev.kind = "interaction" /\ Count(rec.log, "parse") = 1) =>
            \A i \in 1..Len(rec.ev.opts) :
                (/\ i <= Len(rec.cmd.arguments)
                 /\ Val(rec.ev.opts[i].t, rec.ev.opts[i].v) \in EntityOptions
                 /\ rec.ev.opts[i].t = rec.cmd.arguments[i].type)
                    => parseOne(rec.cmd.arguments[i], rec.rawArgs, i, TRUE)
                           = Ok(Val(rec.ev.opts[i].t, rec.ev.opts[i].v))

\* C27: in the slash path, once the permission checks passed: when
\* parseArguments succeeds, the interaction is responded to first and the
\* handler is called only after that, once, with the parsed values; when it
\* fails, the failure is acknowledged and notified and neither the response
\* of the command is sent nor the handler called.
C27_RespondThenRun ==
    \A d \in Slots :
        LET rec == disp[d]
            r == parseArguments(rec.cmd.arguments,
                                slashRawArgs(rec.cmd.arguments, rec.ev.opts, 1), TRUE)
        IN  (rec.ev.kind = "interaction" /\ Count(rec.log, "userok") = 1) =>
                /\ Count(rec.log, "run") = 1 =>
                      /\ r.st = "ok" /\ rec.handlerArgs = r.ret
                      /\ Count(rec.log, "respond") = 1
                      /\ Pos(rec.log, "respond") < Pos(rec.log, "run")
                      /\ Count(rec.log, "hint") = 0
                /\ (rec.pc \in {"done", "reload", "reloading"} /\ r.st = "ok") =>
                      Count(rec.log, "run") = 1
                /\ r.st = "fail" =>
                      /\ Count(rec.log, "run") = 0 /\ Count(rec.log, "respond") = 0
                      /\ rec.pc = "done" => Count(rec.log, "hint") = 1

\* The slash command perm of a plain member was responded to and then run
\* with its two values.
C27_Witness ==
    \E d \in Slots :
        /\ disp[d].ev.kind = "interaction"
        /\ disp[d].cmd.name = NPerm
        /\ disp[d].ev.author = UMember
        /\ disp[d].log = <<"found", "botok", "userok", "parse", "parsed", "respond", "run">>
        /\ disp[d].handlerArgs = <<Val("user", <<"1">>), Val("boolean", TRUE)>>

\* C30: a dispatch of a command other than the built-in reload, whether
\* ignored, denied, failing to parse or run, leaves the groups and the
\* registry of commands as they are: no step of handleMessage,
\* handleSlashInteraction or parseArguments writes to either.
C30_DispatchLeavesRegistry ==
    [][ \A d \in Slots :
            (disp'[d] # disp[d] /\ disp[d].cmd.src # "builtin/reload")
                => commands' = commands /\ groups' = groups
      ]_vars

\* The message "!test 3" was answered with the hint, and the registry holds
\* what the one load of this run registered, test among it.
C30_Witness ==
    \E d \in Slots :
        /\ disp[d].ev.content = <<"!", "t", "e", "s", "t", " ", "3">>
        /\ disp[d].pc = "done"
        /\ Count(disp[d].log, "hint") = 1
        /\ Len(seen) = 1
        /\ RegistryOf(commands, groups, seen[1])
        /\ commands[NTest] = disp[d].cmd

\* C35: a message whose author is a bot and an interaction whose user is a
\* bot never lead to a lookup of a command, to a reply or to a call of a
\* handler, whatever the content and whatever the configuration.
C35_BotsIgnored ==
    \A d \in Slots :
        disp[d].ev.bot =>
            /\ disp[d].pc = "done"
            /\ disp[d].log = <<>>
            /\ disp[d].cmd = IdleDispatch.cmd
            /\ disp[d].handlerArgs = <<>>

\* In text mode with the prefix "!", the message "!test 2" of a bot arrived
\* while test was registered, and was ignored.
C35_Witness ==
    \E d \in Slots :
        /\ ~options.useSlashes /\ options.prefix = <<"!">>
        /\ NTest \in DOMAIN commands
        /\ disp[d].ev.kind = "message" /\ disp[d].ev.bot
        /\ disp[d].ev.content = <<"!", "t", "e", "s", "t", " ", "2">>
        /\ disp[d].pc = "done"
        /\ disp[d].log = <<>>

\* C37: once the bot runs, the registry is rebuilt or changed only by the
\* handler of the built-in reload command, dispatched for a user in the
\* configured owners: that command passes the user permission check for
\* nobody else, and the names reload and help always stand for the
\* built-ins, a discovered command of such a name never taking them over.
C37_OnlyOwnersReload ==
    [][ /\ (phase = "running"
              /\ (commands' # commands \/ groups' # groups \/ seen' # seen))
            => \E d \in Slots :
                  /\ disp'[d].pc = "reloading"
                  /\ disp'[d].cmd = [ReloadCommand EXCEPT !.group = "builtin"]
                  /\ disp'[d].ev.author \in options.owners
        /\ \A d \in Slots :
              /\ disp'[d].cmd.name \in {NReload, NHelp}
                    => disp'[d].cmd.src \in {"builtin/reload", "builtin/help"}
              /\ (disp'[d].cmd.src = "builtin/reload"
                     /\ Count(disp'[d].log, "userok") = 1)
                    => disp'[d].ev.author \in options.owners
        /\ \A n \in {NReload, NHelp} \cap DOMAIN commands' :
              commands'[n].group = "builtin"
      ]_vars

\* The command path holds a module test/reload; the configured owner sent
\* the reload command, the registry was rebuilt, and reload still is the
\* built-in.
C37_Witness ==
    \E d \in Slots :
        /\ \E k \in 1..Len(fs["test"]) : fs["test"][k] = Module(TestReload)
        /\ disp[d].cmd.src = "builtin/reload"
        /\ disp[d].ev.author = UOwner
        /\ Count(disp[d].log, "reloaded") = 1
        /\ Len(seen) = 2
        /\ commands[NReload] = [ReloadCommand EXCEPT !.group = "builtin"]
        /\ NTest \in DOMAIN commands

\* The position in the schema of the argument of a name (0 if none).
SchemaIndex(arguments, name) ==
    IF \E i \in 1..Len(arguments) : arguments[i].name = name
    THEN CHOOSE i \in 1..Len(arguments) :
            arguments[i].name = name /\ \A j \in 1..(i - 1) : arguments[j].name # name
    ELSE 0

\* The options are options of the schema, each of the type of its argument,
\* in the order of the schema.
OptionsOf(arguments, opts) ==
    /\ \A k \in 1..Len(opts) :
          /\ SchemaIndex(arguments, opts[k].name) > 0
          /\ arguments[SchemaIndex(arguments, opts[k].name)].type = opts[k].t
    /\ \A k \in 1..(Len(opts) - 1) :
          SchemaIndex(arguments, opts[k].name) < SchemaIndex(arguments, opts[k + 1].name)

\* C38: in the slash path every option of the interaction becomes the value
\* of the schema entry it was supplied for: when the arguments were parsed,
\* the handler's value at the position of that entry is the value of the
\* option, also when an optional argument before it was left out.
C38_OptionsByName ==
    \A d \in Slots :
        LET rec == disp[d] IN
        (/\ rec.ev.kind = "interaction"
         /\ Count(rec.log, "parsed") = 1
         /\ OptionsOf(rec.cmd.arguments, rec.ev.opts))
            => \A k \in 1..Len(rec.ev.opts) :
                  LET i == SchemaIndex(rec.cmd.arguments, rec.ev.opts[k].name) IN
                  /\ i <= Len(rec.handlerArgs)
                  /\ rec.handlerArgs[i] = Val(rec.ev.opts[k].t, rec.ev.opts[k].v)

(***************************************************************************)
(* Properties of dispatches in flight together (under SpecConc)            *)
(***************************************************************************)
\* The command path holds test/number.
HoldsTest(disk) ==
    \E k \in 1..Len(disk["test"]) : disk["test"][k] = Module(TestNumber)

\* C28: the reload command replaces the registry as a whole, so that a
\* lookup made while a reload is in progress sees the whole registry of
\* before or the whole registry of after: a command that every load found
\* in the command path, and that so is registered before and after each
\* reload, is found by every dispatch of a message that calls it.
C28_LookupSeesWholeRegistry ==
    (\A i \in 1..Len(seen) : HoldsTest(seen[i])) =>
        \A d \in Slots :
            (/\ disp[d].pc \notin {"idle", "finished"}
             /\ FirstWord(Drop(disp[d].ev.content, 1)) = NTest)
                => disp[d].cmd.name = NTest

\* C29: a dispatch that took its command from the registry goes on with
\* that definition until it ends, whatever a reload does to the registry
\* in the meantime: the definition it holds does not change, and its
\* arguments are parsed by the schema of that definition and the handler
\* called with the result.
C29_KeepsDefinition ==
    [][ \A d \in Slots :
            LET rec == disp[d]
                r == parseArguments(rec.cmd.arguments, rec.rawArgs, rec.ev.guild)
            IN  /\ (rec.pc \notin {"idle", "finished"} /\ disp'[d].pc # "finished")
                      => disp'[d].cmd = rec.cmd
                /\ (rec.pc = "parse" /\ disp'[d].pc # "parse") =>
                      /\ r.st = "ok" =>
                            /\ disp'[d].handlerArgs = r.ret
                            /\ Count(disp'[d].log, "run") = 1
                      /\ r.st = "fail" => disp'[d].pc = "hint"
      ]_vars

\* A reload has completed and has removed test from the registry, while a
\* dispatch that found test before and passed its permission checks is
\* about to parse its arguments.
C29_Witness ==
    \E d \in Slots, r \in Slots :
        /\ disp[r].cmd.name = NReload
        /\ Count(disp[r].log, "reloaded") = 1
        /\ NTest \notin DOMAIN commands
        /\ disp[d].cmd = [TestNumber EXCEPT !.group = "test"]
        /\ disp[d].pc = "parse"
        /\ Count(disp[d].log, "userok") = 1

(***************************************************************************)
(* Further properties of parseArguments (under SpecParse)                  *)
(***************************************************************************)
\* parseArguments reaches entry i of the schema with a token: the entries
\* before it were parsed from the tokens before it.
Reaches(i) ==
    /\ i <= Len(pcall.arguments)
    /\ TokensPresent(pcall.args, i)
    /\ \A j \in 1..(i - 1) :
          parseOne(pcall.arguments[j], pcall.args, j, pcall.guild).st = "ok"

\* C31: when parseArguments reaches a string argument marked rest at
\* position i with a token there, the value of that argument is the tokens
\* from position i on joined by single spaces, and it is the last value of
\* the result: no entry declared after it adds one.
C31_RestTakesAll ==
    pcall.done =>
        \A i \in 1..Len(pcall.arguments) :
            (/\ pcall.arguments[i].type = "string" /\ pcall.arguments[i].rest
             /\ Reaches(i))
                => /\ pcall.result.st = "ok"
                   /\ Len(pcall.result.ret) = i
                   /\ pcall.result.ret[i] =
                          Val("string", JoinSpace(SubSeq(pcall.args, i, Len(pcall.args))))

\* The token is the mention of a user the platform has: "<@", an optional
\* "!", the digits of the id of a known user, ">".
MentionsKnownUser(tok) ==
    \E id \in KnownUsers :
        tok \in { <<"<", "@">> \o id \o <<">">>, <<"<", "@", "!">> \o id \o <<">">> }

\* C32: for a user argument that parseArguments reaches, a token that is no
\* user mention, and likewise a mention of a user that the lookup cannot
\* resolve, makes parseArguments return the failure signal (on which the
\* dispatch sends the hint or the failure notice and calls no handler).
C32_UserFailure ==
    pcall.done =>
        \A i \in 1..Len(pcall.arguments) :
            (/\ pcall.arguments[i].type = "user"
             /\ Reaches(i)
             /\ ~MentionsKnownUser(pcall.args[i]))
                => pcall.result = Result("fail", <<>>)

\* The token is a decimal literal from its first character to its last: an
\* optional sign, digits, and an optional fraction.
NumericLiteral(tok) ==
    LET u == IF tok # <<>> /\ Head(tok) \in {"-", "+"} THEN Tail(tok) ELSE tok IN
    \E k \in 0..Len(u) :
        /\ \A j \in 1..k : u[j] \in Digits
        /\ \/ k > 0 /\ k = Len(u)
           \/ /\ k < Len(u) /\ u[k + 1] = "."
              /\ \A j \in (k + 2)..Len(u) : u[j] \in Digits
              /\ Len(u) > 1

\* C33: for a number argument that parseArguments reaches, a token that is
\* not a numeric literal as a whole (digits followed by letters, say) makes
\* the whole parse fail, and a numeric token gives exactly its value ("2"
\* gives 2).
C33_NumberWholeToken ==
    pcall.done =>
        \A i \in 1..Len(pcall.arguments) :
            (pcall.arguments[i].type = "number" /\ Reaches(i)) =>
                IF NumericLiteral(pcall.args[i])
                THEN /\ pcall.result.st = "ok" =>
                            pcall.result.ret[i] = Val("number", parseFloat(pcall.args[i]))
                     /\ (pcall.result.st = "ok" /\ pcall.args[i] = T2) =>
                            pcall.result.ret[i] = Val("number", Num(2, 0))
                ELSE pcall.result.st # "ok"

\* The smaller of two numbers.
Min(a, b) == IF a <= b THEN a ELSE b

\* C34: for a schema without a rest argument and tokens none of which is
\* empty, a successful parseArguments returns min(length of the schema,
\* number of tokens) values, the i-th made from the i-th token; the tokens
\* beyond the length of the schema are ignored: the result is that of the
\* call without them, so they never make the parse fail.
C34_OneValuePerToken ==
    LET A == pcall.arguments
        T == pcall.args
        n == Min(Len(A), Len(T))
    IN  (/\ pcall.done
         /\ \A i \in 1..Len(A) : ~A[i].rest
         /\ \A j \in 1..Len(T) : T[j] # <<>>)
            => /\ pcall.result.st = "ok" =>
                     /\ Len(pcall.result.ret) = n
                     /\ \A i \in 1..n :
                           pcall.result.ret[i] = parseOne(A[i], T, i, pcall.guild).val
               /\ Len(T) > Len(A) =>
                     /\ pcall.result = parseArguments(A, Take(T, Len(A)), pcall.guild)
                     /\ (\A i \in 1..n : parseOne(A[i], T, i, pcall.guild).st = "ok")
                           => pcall.result.st = "ok"

\* A schema of one number argument was given "2" and "y": the result is the
\* number 2 alone.
C34_Witness ==
    /\ pcall.done
    /\ Len(pcall.arguments) = 1
    /\ pcall.arguments[1].type = "number" /\ pcall.arguments[1].oneOf = <<>>
    /\ pcall.args = <<T2, Ty>>
    /\ pcall.result = Result("ok", <<Val("number", Num(2, 0))>>)

(***************************************************************************)
(* Properties of overlapping loads (under SpecOverlap)                     *)
(***************************************************************************)
\* What one call of registerCommands that nothing interrupts adds to cmds
\* from entry fi of the gi-th group on.
RECURSIVE loadedFrom(_, _, _, _)
loadedFrom(cmds, gs, gi, fi) ==
    IF gi > Len(gs) THEN cmds
    ELSE IF ~exists(gs, gi) \/ fi > Len(dirOf(gs, gi)) THEN loadedFrom(cmds, gs, gi + 1, 1)
    ELSE LET mod == dirOf(gs, gi)[fi] IN
         loadedFrom(IF mod.kind = "command" THEN registerCommand(cmds, mod.cmd, gs[gi][1])
                    ELSE cmds,
                    gs, gi, fi + 1)

\* C36: when calls of registerCommands overlap at their awaits and the
\* command path is not edited, then once all of them have returned the
\* registry maps each name to the definition and the group that one call
\* alone gives it, the same one of two modules of the same name included.
C36_OverlapSameRegistry ==
    (phase = "running" /\ \A l \in Loaders : loads[l].pc \in {"idle", "done"})
        => commands = loadedFrom(registerBuiltins(EmptyMap), groups, 1, 1)

====
